---- MODULE Spec2Model ----
(***************************************************************************)
(* RouteMQ background job queue: the Redis driver (core/queue/redis_queue), *)
(* the relational driver (core/queue/database_queue) and the worker loop    *)
(* (core/queue/queue_worker), as a state machine.                           *)
(*                                                                          *)
(* Every Redis command and every SQL statement or commit is one step of the *)
(* worker process that issues it; processes interleave between steps.       *)
(*   Spec      the workers on the Redis driver (QUEUE_CONNECTION default)   *)
(*   SpecDb    the same workers on the relational driver                    *)
(*   SpecCrash Spec, and a worker process may die at any step               *)
(*   SpecFifo, SpecDbFifo  pushes without delay, on either driver           *)
(*   SpecStop  SpecDb, with stop requests, pause() and resume()             *)
(*                                                                          *)
(* Workers are constructed with the defaults max_jobs=None, max_time=None.  *)
(* Outside SpecStop they receive no signal, so should_quit and paused stay  *)
(* False and the loop of work() always proceeds to driver.pop.  Redis ids   *)
(* are taken at distinct microsecond readings of the clock.  One queue,     *)
(* "default".                                                               *)
(***************************************************************************)
EXTENDS Integers, Sequences, FiniteSets, TLC

(* ------------------------------ bounds -------------------------------- *)

\* pushes to the Redis driver in one behaviour
MaxPush == 1
\* pushes to the relational driver in one behaviour
MaxRows == 1
\* the clock runs from 0 to MaxTime seconds
MaxTime == 2
\* driver calls that raise (connection errors) in one behaviour
MaxFaults == 1
\* pops of the Redis driver that return one and the same id in one behaviour
MaxClaims == 3
\* pushes without delay in one behaviour of SpecFifo and of SpecDbFifo
MaxReady == 2

Workers == {"w1", "w2"}

\* the max_tries argument of a QueueWorker: None (0) or an override
WorkerMaxTries == {0, 1}

\* the max_jobs argument of a QueueWorker: None (0) or a ceiling
MaxJobsArgs == {0, 1}

\* the max_time argument of a QueueWorker that is given one, in seconds
MaxTimeArg == 1

\* delay arguments of push (QueueManager.push uses 0, QueueManager.later > 0)
Delays == {0, 1}

\* reserved_at IS NULL
Null == -1

(* ---------------------------- job records ----------------------------- *)

\* class attribute defaults of Job
DefaultMaxTries == 3
DefaultTimeout == 60
DefaultRetryAfter == 0

\* classes that Job.unserialize can import
KnownClasses == {"app.jobs.LaterJob", "app.jobs.SoonJob"}

\* the job instances producers dispatch, subclasses of Job overriding the
\* class attributes: two attempts each (as GenerateReportJob and TestJob), one
\* retried after a delay, one retried at once
LaterJob ==
  [cls |-> "app.jobs.LaterJob", data |-> "d1", max_tries |-> 2,
   timeout |-> DefaultTimeout, retry_after |-> 1, queue |-> "default"]

SoonJob ==
  [cls |-> "app.jobs.SoonJob", data |-> "d2", max_tries |-> 2,
   timeout |-> DefaultTimeout, retry_after |-> DefaultRetryAfter, queue |-> "default"]

\* Job.serialize: the envelope written to the queue
Serialize(job) ==
  [class |-> job.cls, data |-> job.data, max_tries |-> job.max_tries,
   timeout |-> job.timeout, retry_after |-> job.retry_after, queue |-> job.queue]

\* an envelope whose class cannot be imported: Job.unserialize raises
CorruptPayload ==
  [class |-> "gone.Missing", data |-> "d3", max_tries |-> DefaultMaxTries,
   timeout |-> DefaultTimeout, retry_after |-> DefaultRetryAfter, queue |-> "default"]

\* Job.unserialize succeeds iff the class named by the envelope is importable
CanUnserialize(payload) == payload.class \in KnownClasses

\* Job.unserialize: the job rebuilt field by field from the envelope
Unserialize(payload) ==
  [cls |-> payload.class, data |-> payload.data, max_tries |-> payload.max_tries,
   timeout |-> payload.timeout, retry_after |-> payload.retry_after,
   queue |-> payload.queue]

Payloads == {Serialize(LaterJob), Serialize(SoonJob), CorruptPayload}

NoPayload ==
  [class |-> "", data |-> "", max_tries |-> 0, timeout |-> 0, retry_after |-> 0,
   queue |-> ""]

\* the absence of a job (None)
NoJob == [id |-> 0, payload |-> NoPayload, attempts |-> 0]

(* ------------------------------- state -------------------------------- *)

VARIABLES
  now,          \* the clock, in seconds
  pushed,       \* number of pushes so far; the next id is pushed + 1
  ready,        \* Redis list routemq:queue:<q>
  delayed,      \* Redis sorted set routemq:queue:<q>:delayed, {[job, score]}
  reserved,     \* Redis list routemq:queue:<q>:reserved
  rows,         \* table queue_jobs
  failedStore,  \* table queue_failed_jobs / list routemq:queue:failed:<q>
  wMaxTries,    \* QueueWorker.max_tries of each worker, 0 for None
  pc,           \* where each worker process is
  job_data,     \* the dict driver.pop returned to each worker
  job_json,     \* the raw list element (or row) a driver call works on
  avail,        \* available_jobs read by _migrate_delayed_jobs
  current_time, \* time.time() read by _migrate_delayed_jobs of the pop under way
  ctx,          \* which branch of _process_job the worker is in
  exc,          \* the exception the worker is handling
  handlerOk,    \* history: job.handle() returned for the current claim
  failRan,      \* history: _fail_job ran for the current claim
  hookOk,       \* history: job.failed() returned for the current claim
  stored,       \* history: driver.failed stored a record for the current claim
  skipped,      \* history: the worker's last SELECT skipped a locked row
  faults,       \* driver calls that raised so far
  claims,       \* history: pops that returned each id
  starts,       \* history: handler starts of each id
  removed,      \* history: ids removed by driver.delete
  dueAt,        \* history: now + delay of the last push or release of each id
  should_quit,  \* QueueWorker.should_quit of each worker
  paused,       \* QueueWorker.paused of each worker
  stopJob,      \* history: the id each worker held when its stop was requested
  max_jobs,     \* QueueWorker.max_jobs of each worker, 0 for None
  max_time,     \* QueueWorker.max_time of each worker, 0 for None
  jobs_processed, \* QueueWorker.jobs_processed of each worker
  taken,        \* history: entries pop handed to each worker with a max_jobs
  slept,        \* history: the worker slept in a pause while an entry was waiting
  running,      \* handlers of each worker that have started and not ended
  redis_enabled,       \* RedisManager().is_enabled()
  mysql_enabled,       \* Model._is_enabled
  default_connection,  \* QueueManager._default_connection
  mgr_conn,     \* the connection argument of the last QueueManager.push
  mgr_driver,   \* what get_driver gave that push: a driver, or RuntimeError
  mgr_raised,   \* the last QueueManager.push raised to its caller
  pop_error,    \* how the last pop of each worker that met a disabled or failing
                \* store ended: it returned None, or it raised
  main_count,   \* RedisQueue.size in progress: the LLEN it read, else Null
  size_out,     \* the result of the last size call, Null before the first
  size_then,    \* history: the entries not reserved when that call began
  ser_job,      \* a job instance a producer built
  ser_payload,  \* Job.serialize of it, NoEnvelope before
  ser_restored, \* Job.unserialize of the payload, NoInstance before
  wTimeout,     \* the timeout argument of each QueueWorker, in seconds
  ran,          \* history: how long the last handler of each worker ran or would
                \* have run, in seconds
  rl_zset,      \* the sorted set of the rate-limit key in Redis: its members
  rl_requests,  \* cache_entry['requests'] of the rate-limit key in memory
  rl_made,      \* history: requests that reached the rate-limit middleware
  rl_passed,    \* history: requests handed to next_handler, by clock reading
  routes,       \* Router.routes
  d_topic,      \* the topic of the dispatch under way, <<>> when there is none
  d_route,      \* the index in routes of the route it matched, 0 for none
  d_pos,        \* the middleware of that route about to be entered
  d_calls,      \* history: the middleware entered and handlers invoked by it
  d_outcome     \* "none", "returned" or "ValueError"

vars ==
  <<now, pushed, ready, delayed, reserved, rows, failedStore, wMaxTries, pc,
    job_data, job_json, avail, current_time, ctx, exc, handlerOk, failRan, hookOk, stored,
    skipped, faults, claims, starts, removed, dueAt,
    should_quit, paused, stopJob, max_jobs, max_time, jobs_processed, taken,
    slept, running,
    redis_enabled, mysql_enabled, default_connection, mgr_conn, mgr_driver, mgr_raised,
    pop_error, main_count, size_out, size_then, ser_job, ser_payload, ser_restored,
    wTimeout, ran, rl_zset, rl_requests, rl_made, rl_passed,
    routes, d_topic, d_route, d_pos, d_calls, d_outcome>>

envVars == <<now, pushed, wMaxTries>>
redisVars == <<ready, delayed, reserved>>
storeFlags == <<redis_enabled, mysql_enabled, default_connection>>
pushOut == <<mgr_conn, mgr_driver, mgr_raised>>
mgrVars ==
  <<redis_enabled, mysql_enabled, default_connection, mgr_conn, mgr_driver, mgr_raised,
    pop_error, main_count, size_out, size_then, ser_job, ser_payload, ser_restored,
    wTimeout, ran, rl_zset, rl_requests, rl_made, rl_passed,
    routes, d_topic, d_route, d_pos, d_calls, d_outcome>>
serVars == <<ser_job, ser_payload, ser_restored>>
timeVars == <<wTimeout, ran>>
rateVars == <<rl_zset, rl_requests, rl_made, rl_passed>>
routerVars == <<routes, d_topic, d_route, d_pos, d_calls, d_outcome>>
sizeVars == <<main_count, size_out, size_then>>
loopVars == <<should_quit, paused, stopJob, slept, running>>
ceilVars == <<max_jobs, max_time, jobs_processed, taken>>
callVars == <<job_data, job_json, avail, current_time, ctx, exc>>
trailVars == <<handlerOk, failRan, hookOk, stored>>
histVars == <<claims, starts, removed>>

Ids == 1..(IF MaxReady > MaxPush + MaxRows THEN MaxReady ELSE MaxPush + MaxRows)

\* the queue and the workers before the first push, whatever the ceilings
InitQueue ==
  /\ now = 0
  /\ pushed = 0
  /\ ready = <<>>
  /\ delayed = {}
  /\ reserved = <<>>
  /\ rows = {}
  /\ failedStore = <<>>
  /\ wMaxTries \in [Workers -> WorkerMaxTries]
  /\ pc = [w \in Workers |-> "pop"]
  /\ job_data = [w \in Workers |-> NoJob]
  /\ job_json = [w \in Workers |-> NoJob]
  /\ avail = [w \in Workers |-> <<>>]
  /\ current_time = [w \in Workers |-> 0]
  /\ ctx = [w \in Workers |-> "none"]
  /\ exc = [w \in Workers |-> "none"]
  /\ handlerOk = [w \in Workers |-> FALSE]
  /\ failRan = [w \in Workers |-> FALSE]
  /\ hookOk = [w \in Workers |-> FALSE]
  /\ stored = [w \in Workers |-> FALSE]
  /\ skipped = [w \in Workers |-> FALSE]
  /\ faults = 0
  /\ claims = [i \in Ids |-> 0]
  /\ starts = [i \in Ids |-> 0]
  /\ removed = {}
  /\ dueAt = [i \in Ids |-> 0]
  /\ should_quit = [w \in Workers |-> FALSE]
  /\ paused = [w \in Workers |-> FALSE]
  /\ stopJob = [w \in Workers |-> 0]
  /\ slept = [w \in Workers |-> FALSE]
  /\ running = [w \in Workers |-> 0]
  /\ jobs_processed = [w \in Workers |-> 0]
  /\ taken = [w \in Workers |-> 0]

(* ----------------------- Job.serialize, in detail --------------------- *)

\* Python values of instance attributes, by type; n tells values of one type
\* apart.  None, an int, a str, a list and a tuple.
Absent == [t |-> "absent", n |-> 0]
PyNone == [t |-> "None", n |-> 0]
PyValues ==
  {PyNone, [t |-> "int", n |-> 42], [t |-> "str", n |-> 1], [t |-> "list", n |-> 1],
   [t |-> "tuple", n |-> 1]}

\* json.loads(json.dumps(value)): a tuple is written as an array and read
\* back as a list; None, int, str and list come back as they were
JsonValue(value) == IF value.t = "tuple" THEN [value EXCEPT !.t = "list"] ELSE value

\* attribute names of a job instance
Attrs == {"attempts", "_cache", "test_data", "extra"}

\* key.startswith("_")
PrivateAttrs == {"_cache"}

\* the job metadata keys get_data leaves out
MetaAttrs == {"job_id", "attempts", "max_tries", "timeout", "retry_after", "queue"}

\* the envelope fields unserialize reads with a default
PropNames == {"max_tries", "timeout", "retry_after", "queue"}

\* job_class(): Job.__init__ sets attempts = 0, TestJob.__init__ sets
\* test_data = None
NewInstance ==
  [a \in Attrs |-> IF a = "attempts" THEN [t |-> "int", n |-> 0]
                   ELSE IF a = "test_data" THEN PyNone ELSE Absent]

\* Job.get_data: the instance attributes that are neither private nor metadata
GetData(job) ==
  [k \in {a \in Attrs : job.dict[a] # Absent /\ a \notin PrivateAttrs /\ a \notin MetaAttrs}
     |-> job.dict[k]]

\* Job.serialize, the data mapping written by json.dumps; lacks names the
\* envelope fields that are missing (none when serialize wrote the envelope)
JobSerialize(job) ==
  [class |-> job.cls,
   data |-> [k \in DOMAIN GetData(job) |-> JsonValue(GetData(job)[k])],
   max_tries |-> job.max_tries, timeout |-> job.timeout,
   retry_after |-> job.retry_after, queue |-> job.queue, lacks |-> {}]

\* Job.unserialize: job_class(), the four properties with .get defaults, and
\* setattr for every key of data
JobUnserialize(payload) ==
  [cls |-> payload.class,
   dict |-> [a \in Attrs |-> IF a \in DOMAIN payload.data THEN payload.data[a]
                             ELSE NewInstance[a]],
   max_tries |-> IF "max_tries" \in payload.lacks THEN DefaultMaxTries ELSE payload.max_tries,
   timeout |-> IF "timeout" \in payload.lacks THEN DefaultTimeout ELSE payload.timeout,
   retry_after |-> IF "retry_after" \in payload.lacks THEN DefaultRetryAfter
                   ELSE payload.retry_after,
   queue |-> IF "queue" \in payload.lacks THEN "default" ELSE payload.queue]

\* the job instances of the producers: TestJob (max_tries 2, timeout 10,
\* queue "test") and SendEmailJob (3, 30, retry_after 10, "emails") with
\* attributes set after construction
JobInstances ==
  {[cls |-> c.cls, dict |-> d, max_tries |-> c.max_tries, timeout |-> c.timeout,
    retry_after |-> c.retry_after, queue |-> c.queue] :
     c \in {[cls |-> "test_queue.TestJob", max_tries |-> 2, timeout |-> 10,
             retry_after |-> 0, queue |-> "test"],
            [cls |-> "app.jobs.example_email_job.SendEmailJob", max_tries |-> 3,
             timeout |-> 30, retry_after |-> 10, queue |-> "emails"]},
     d \in {f \in [Attrs -> PyValues \cup {Absent, [t |-> "int", n |-> 0]}] :
              /\ f["attempts"] \in {[t |-> "int", n |-> 0], [t |-> "int", n |-> 42]}
              /\ f["_cache"] \in {Absent, [t |-> "str", n |-> 1]}
              /\ f["test_data"] # Absent
              /\ f["extra"] \in {Absent, [t |-> "list", n |-> 1]}}}

NoEnvelope ==
  [class |-> "", data |-> <<>>, max_tries |-> 0, timeout |-> 0, retry_after |-> 0,
   queue |-> "", lacks |-> {}]

NoInstance ==
  [cls |-> "", dict |-> [a \in Attrs |-> Absent], max_tries |-> 0, timeout |-> 0,
   retry_after |-> 0, queue |-> ""]

\* no job serialized
NoSerial ==
  /\ ser_job = NoInstance
  /\ ser_payload = NoEnvelope
  /\ ser_restored = NoInstance

\* the default of the timeout argument of QueueWorker
DefaultWorkerTimeout == 60

\* workers built without a timeout argument, no handler run yet
NoTimeouts ==
  /\ wTimeout = [w \in Workers |-> DefaultWorkerTimeout]
  /\ ran = [w \in Workers |-> 0]

\* no request has reached the rate-limit middleware, no route is registered
\* and no message is dispatched
NoRequests ==
  /\ rl_zset = {}
  /\ rl_requests = <<>>
  /\ rl_made = 0
  /\ rl_passed = [t \in 0..MaxTime |-> 0]
  /\ routes = <<>>
  /\ d_topic = <<>>
  /\ d_route = 0
  /\ d_pos = 0
  /\ d_calls = <<>>
  /\ d_outcome = "none"

\* no QueueManager.push made yet
InitManager ==
  /\ mgr_conn = ""
  /\ mgr_driver = "none"
  /\ mgr_raised = FALSE
  /\ pop_error = [w \in Workers |-> "none"]
  /\ main_count = Null
  /\ size_out = Null
  /\ size_then = 0

\* both stores enabled, QUEUE_CONNECTION left at its default "redis"
StoresUp ==
  /\ redis_enabled = TRUE
  /\ mysql_enabled = TRUE
  /\ default_connection = "redis"
  /\ InitManager
  /\ NoSerial
  /\ NoTimeouts
  /\ NoRequests

\* workers constructed with max_jobs=None and max_time=None
Init ==
  /\ InitQueue
  /\ StoresUp
  /\ max_jobs = [w \in Workers |-> 0]
  /\ max_time = [w \in Workers |-> 0]

\* workers constructed with one ceiling each: a max_jobs, or else a max_time
InitCeil ==
  /\ InitQueue
  /\ StoresUp
  /\ max_jobs \in [Workers -> MaxJobsArgs]
  /\ max_time = [w \in Workers |-> IF max_jobs[w] = 0 THEN MaxTimeArg ELSE 0]

(* ------------------------------ helpers ------------------------------- *)

\* LREM key 1 value: the list without the first element equal to value
RECURSIVE LRem(_, _)
LRem(list, value) ==
  IF list = <<>> THEN <<>>
  ELSE IF Head(list) = value THEN Tail(list)
  ELSE <<Head(list)>> \o LRem(Tail(list), value)

\* the first element of a list whose id is job_id, NoJob when there is none
RECURSIVE FindById(_, _)
FindById(list, job_id) ==
  IF list = <<>> THEN NoJob
  ELSE IF Head(list).id = job_id THEN Head(list)
  ELSE FindById(Tail(list), job_id)

\* ZADD key {member: score}: a member already present gets the new score
ZAdd(zset, member, score) ==
  {d \in zset : d.job # member} \cup {[job |-> member, score |-> score]}

\* ZREM key member
ZRem(zset, member) == {d \in zset : d.job # member}

\* sorted-set order: by score, then by member (id, then attempts)
ZLess(a, b) ==
  \/ a.score < b.score
  \/ a.score = b.score /\ a.job.id < b.job.id
  \/ a.score = b.score /\ a.job.id = b.job.id /\ a.job.attempts < b.job.attempts

\* a faulty variant of the range: a member whose score equals max is left out
RECURSIVE ZRangeBelowScore(_, _)
ZRangeBelowScore(zset, max) ==
  LET due == {d \in zset : d.score < max}
  IN IF due = {} THEN <<>>
     ELSE LET first == CHOOSE d \in due : \A o \in due \ {d} : ZLess(d, o)
          IN <<first.job>> \o ZRangeBelowScore(zset \ {first}, max)

\* ZRANGEBYSCORE key -inf max: the members with score <= max, in order
RECURSIVE ZRangeByScore(_, _)
ZRangeByScore(zset, max) ==
  LET due == {d \in zset : d.score <= max}
  IN IF due = {} THEN <<>>
     ELSE LET first == CHOOSE d \in due : \A o \in due \ {d} : ZLess(d, o)
          IN <<first.job>> \o ZRangeByScore(zset \ {first}, max)

\* the pipeline of _migrate_delayed_jobs: an RPUSH per job read
RECURSIVE MigrateReady(_, _)
MigrateReady(list, jobs) ==
  IF jobs = <<>> THEN list
  ELSE MigrateReady(Append(list, Head(jobs)), Tail(jobs))

\* the pipeline of _migrate_delayed_jobs: a ZREM per job read
RECURSIVE MigrateDelayed(_, _)
MigrateDelayed(zset, jobs) ==
  IF jobs = <<>> THEN zset
  ELSE MigrateDelayed(ZRem(zset, Head(jobs)), Tail(jobs))

\* max_tries = self.max_tries or job.max_tries
EffectiveMaxTries(w, payload) ==
  IF wMaxTries[w] # 0 THEN wMaxTries[w] ELSE Unserialize(payload).max_tries

\* job_data["attempts"] += 1
Claimed(job) == [job EXCEPT !.attempts = job.attempts + 1]

\* delay = job.retry_after
RetryDelay(w) == Unserialize(job_data[w].payload).retry_after

\* the worker is back at the top of the loop of work(): the locals of
\* _process_job and of the driver call are gone
Return(w) ==
  /\ pc' = [pc EXCEPT ![w] = "pop"]
  /\ job_data' = [job_data EXCEPT ![w] = NoJob]
  /\ job_json' = [job_json EXCEPT ![w] = NoJob]
  /\ avail' = [avail EXCEPT ![w] = <<>>]
  /\ current_time' = [current_time EXCEPT ![w] = 0]
  /\ ctx' = [ctx EXCEPT ![w] = "none"]
  /\ exc' = [exc EXCEPT ![w] = "none"]
  /\ handlerOk' = [handlerOk EXCEPT ![w] = FALSE]
  /\ failRan' = [failRan EXCEPT ![w] = FALSE]
  /\ hookOk' = [hookOk EXCEPT ![w] = FALSE]
  /\ stored' = [stored EXCEPT ![w] = FALSE]

\* self.start_time = loop.time() at the head of work(): every worker starts
\* when the clock of the model starts; the reading of the monotonic clock is
\* not zero, so the test "self.max_time and self.start_time" is that of
\* max_time alone
StartTime == 0

\* _should_stop: jobs_processed >= max_jobs, or elapsed >= max_time; None
\* and 0 are no ceiling
ShouldStop(w) ==
  \/ max_jobs[w] # 0 /\ jobs_processed[w] >= max_jobs[w]
  \/ max_time[w] # 0 /\ now - StartTime >= max_time[w]

\* self.jobs_processed += 1 after _process_job returned; the counter is read
\* by _should_stop alone and only under a max_jobs, so without one its
\* values are not told apart
Counted(w) ==
  jobs_processed' = IF max_jobs[w] = 0 THEN jobs_processed
                    ELSE [jobs_processed EXCEPT ![w] = @ + 1]

\* pop hands an entry to worker w
Taken(w) ==
  taken' = IF max_jobs[w] = 0 THEN taken ELSE [taken EXCEPT ![w] = @ + 1]

\* a faulty variant of the top of the loop: the paused flag is not looked at
LoopProceedsPaused(w) == ~should_quit[w] /\ ~ShouldStop(w)

\* the top of the loop of work(): while not should_quit, no limit reached,
\* not paused: the iteration goes on to driver.pop
LoopProceeds(w) == ~should_quit[w] /\ ~ShouldStop(w) /\ ~paused[w]

(* ------------------------- clock and producers ------------------------ *)

\* a time some stored entry is waiting for
Pending(t) ==
  \/ \E d \in delayed : d.score = t
  \/ \E r \in rows : r.available_at = t
  \/ \E w \in Workers : max_time[w] # 0 /\ StartTime + max_time[w] = t

\* the clock advances by a second; readings that no entry waits for are not
\* told apart, so it stands still while nothing is due in the future
Tick ==
  /\ UNCHANGED mgrVars
  /\ now < MaxTime
  /\ \E t \in (now + 1)..(MaxTime + 1) : Pending(t)
  /\ now' = now + 1
  /\ UNCHANGED <<pushed, wMaxTries, rows, failedStore, pc, skipped, faults>>
  /\ UNCHANGED redisVars
  /\ UNCHANGED callVars
  /\ UNCHANGED trailVars
  /\ UNCHANGED histVars
  /\ UNCHANGED dueAt
  /\ UNCHANGED loopVars
  /\ UNCHANGED ceilVars

\* RedisQueue.push
RedisPush ==
  /\ UNCHANGED mgrVars
  /\ pushed < MaxPush
  /\ \E payload \in Payloads, delay \in Delays :
       LET job == [id |-> pushed + 1, payload |-> payload, attempts |-> 0]
       IN /\ IF delay > 0
             THEN /\ delayed' = ZAdd(delayed, job, now + delay)
                  /\ UNCHANGED ready
             ELSE /\ ready' = Append(ready, job)
                  /\ UNCHANGED delayed
          /\ dueAt' = [dueAt EXCEPT ![job.id] = now + delay]
  /\ UNCHANGED loopVars
  /\ UNCHANGED ceilVars
  /\ pushed' = pushed + 1
  /\ UNCHANGED <<now, wMaxTries, reserved, rows, failedStore, pc, skipped, faults>>
  /\ UNCHANGED callVars
  /\ UNCHANGED trailVars
  /\ UNCHANGED histVars

\* RedisQueue.push with delay 0, as QueueManager.push calls it: RPUSH queue
RedisPushNow ==
  /\ UNCHANGED mgrVars
  /\ pushed < MaxReady
  /\ \E payload \in Payloads :
       ready' = Append(ready, [id |-> pushed + 1, payload |-> payload, attempts |-> 0])
  /\ pushed' = pushed + 1
  /\ UNCHANGED <<now, wMaxTries, delayed, reserved, rows, failedStore, pc, skipped,
                 faults>>
  /\ UNCHANGED callVars
  /\ UNCHANGED trailVars
  /\ UNCHANGED histVars
  /\ dueAt' = [dueAt EXCEPT ![pushed + 1] = now]
  /\ UNCHANGED loopVars
  /\ UNCHANGED ceilVars

(* ------------------------- RedisQueue.pop ----------------------------- *)

\* _migrate_delayed_jobs, ZRANGEBYSCORE: read the delayed jobs that are due
RedisMigrateRead(w) ==
  /\ UNCHANGED mgrVars
  /\ pc[w] = "pop"
  /\ LoopProceeds(w)
  /\ current_time' = [current_time EXCEPT ![w] = now]
  /\ avail' = [avail EXCEPT ![w] = ZRangeByScore(delayed, now)]
  /\ pc' = [pc EXCEPT ![w] =
              IF ZRangeByScore(delayed, now) = <<>> THEN "pop_move" ELSE "mig_exec"]
  /\ UNCHANGED <<job_data, job_json, ctx, exc, rows, failedStore, skipped, faults>>
  /\ UNCHANGED envVars
  /\ UNCHANGED redisVars
  /\ UNCHANGED trailVars
  /\ UNCHANGED histVars
  /\ UNCHANGED dueAt
  /\ UNCHANGED loopVars
  /\ UNCHANGED ceilVars

\* _migrate_delayed_jobs, pipeline.execute(): RPUSH and ZREM for every job read
RedisMigrateExec(w) ==
  /\ UNCHANGED mgrVars
  /\ pc[w] = "mig_exec"
  /\ ready' = MigrateReady(ready, avail[w])
  /\ delayed' = MigrateDelayed(delayed, avail[w])
  /\ avail' = [avail EXCEPT ![w] = <<>>]
  /\ pc' = [pc EXCEPT ![w] = "pop_move"]
  /\ UNCHANGED current_time
  /\ UNCHANGED <<job_data, job_json, ctx, exc, reserved, rows, failedStore, skipped,
                 faults>>
  /\ UNCHANGED envVars
  /\ UNCHANGED trailVars
  /\ UNCHANGED histVars
  /\ UNCHANGED dueAt
  /\ UNCHANGED loopVars
  /\ UNCHANGED ceilVars

\* a faulty variant of the move: the tail of the ready list is read and copied
\* to the reserved list, and stays in the ready list
RedisPopMoveCopy(w) ==
  /\ UNCHANGED mgrVars
  /\ pc[w] = "pop_move"
  /\ ready # <<>> => claims[ready[Len(ready)].id] < MaxClaims
  /\ IF ready = <<>>
     THEN /\ Return(w)
          /\ UNCHANGED <<ready, reserved>>
     ELSE /\ UNCHANGED ready
          /\ reserved' = <<ready[Len(ready)]>> \o reserved
          /\ job_json' = [job_json EXCEPT ![w] = ready[Len(ready)]]
          /\ pc' = [pc EXCEPT ![w] = "pop_lrem"]
          /\ current_time' = [current_time EXCEPT ![w] = 0]
          /\ UNCHANGED <<job_data, avail, ctx, exc>>
          /\ UNCHANGED trailVars
  /\ UNCHANGED <<delayed, rows, failedStore, skipped, faults>>
  /\ UNCHANGED envVars
  /\ UNCHANGED histVars
  /\ UNCHANGED dueAt
  /\ UNCHANGED loopVars
  /\ UNCHANGED ceilVars

\* RPOPLPUSH queue reserved: the tail of the ready list becomes the head of the
\* reserved list; an empty list makes pop return None and the worker sleep
RedisPopMove(w) ==
  /\ UNCHANGED mgrVars
  /\ pc[w] = "pop_move"
  /\ ready # <<>> => claims[ready[Len(ready)].id] < MaxClaims
  /\ IF ready = <<>>
     THEN /\ Return(w)
          /\ UNCHANGED <<ready, reserved>>
     ELSE /\ ready' = SubSeq(ready, 1, Len(ready) - 1)
          /\ reserved' = <<ready[Len(ready)]>> \o reserved
          /\ job_json' = [job_json EXCEPT ![w] = ready[Len(ready)]]
          /\ pc' = [pc EXCEPT ![w] = "pop_lrem"]
          /\ current_time' = [current_time EXCEPT ![w] = 0]
          /\ UNCHANGED <<job_data, avail, ctx, exc>>
          /\ UNCHANGED trailVars
  /\ UNCHANGED <<delayed, rows, failedStore, skipped, faults>>
  /\ UNCHANGED envVars
  /\ UNCHANGED histVars
  /\ UNCHANGED dueAt
  /\ UNCHANGED loopVars
  /\ UNCHANGED ceilVars

\* LREM reserved 1 job_json
RedisPopLrem(w) ==
  /\ UNCHANGED mgrVars
  /\ pc[w] = "pop_lrem"
  /\ reserved' = LRem(reserved, job_json[w])
  /\ pc' = [pc EXCEPT ![w] = "pop_rpush"]
  /\ UNCHANGED <<ready, delayed, rows, failedStore, skipped, faults>>
  /\ UNCHANGED envVars
  /\ UNCHANGED callVars
  /\ UNCHANGED trailVars
  /\ UNCHANGED histVars
  /\ UNCHANGED dueAt
  /\ UNCHANGED loopVars
  /\ UNCHANGED ceilVars

\* RPUSH reserved updated_job_json; pop returns job_data
RedisPopRpush(w) ==
  /\ UNCHANGED mgrVars
  /\ pc[w] = "pop_rpush"
  /\ reserved' = Append(reserved, Claimed(job_json[w]))
  /\ job_data' = [job_data EXCEPT ![w] = Claimed(job_json[w])]
  /\ claims' = [claims EXCEPT ![job_json[w].id] = @ + 1]
  /\ pc' = [pc EXCEPT ![w] = "process"]
  /\ UNCHANGED <<ready, delayed, rows, failedStore, skipped, faults, job_json, avail, current_time,
                 ctx, exc, starts, removed>>
  /\ UNCHANGED envVars
  /\ UNCHANGED trailVars
  /\ UNCHANGED dueAt
  /\ UNCHANGED loopVars
  /\ Taken(w)
  /\ UNCHANGED <<max_jobs, max_time, jobs_processed>>

(* ---------------------- QueueWorker._process_job ---------------------- *)

\* if attempts > max_tries
Exceeded(attempts, max_tries) == attempts > max_tries

\* a faulty variant of the retry test: it gives up one attempt early
ShouldRetryEarly(attempts, max_tries) == attempts < max_tries - 1

\* if attempts < max_tries
ShouldRetry(attempts, max_tries) == attempts < max_tries

\* Job.unserialize and the max-tries check at the head of _process_job
Process(w) ==
  /\ UNCHANGED mgrVars
  /\ pc[w] = "process"
  /\ IF ~CanUnserialize(job_data[w].payload)
     THEN /\ ctx' = [ctx EXCEPT ![w] = "corrupt"]
          /\ exc' = [exc EXCEPT ![w] = "Unserialize"]
          /\ pc' = [pc EXCEPT ![w] = "del"]
     ELSE IF Exceeded(job_data[w].attempts, EffectiveMaxTries(w, job_data[w].payload))
     THEN /\ ctx' = [ctx EXCEPT ![w] = "exceeded"]
          /\ exc' = [exc EXCEPT ![w] = "MaxTries"]
          /\ pc' = [pc EXCEPT ![w] = "fail_hook"]
     ELSE /\ pc' = [pc EXCEPT ![w] = "handle"]
          /\ UNCHANGED <<ctx, exc>>
  /\ UNCHANGED <<job_data, job_json, avail, current_time, rows, failedStore, skipped, faults>>
  /\ UNCHANGED envVars
  /\ UNCHANGED redisVars
  /\ UNCHANGED trailVars
  /\ UNCHANGED histVars
  /\ UNCHANGED dueAt
  /\ UNCHANGED loopVars
  /\ UNCHANGED ceilVars

\* a faulty variant of the exit of the handler: a timeout is not re-raised
\* into the except block and the worker goes on to delete the entry
HandlerExitDropsTimeout(outcome) ==
  IF outcome = "Handler" THEN "retry_check" ELSE "del"

\* where _process_job continues after wait_for: at driver.delete when the
\* handler returned; in the except block when it raised, and also when it
\* timed out, since asyncio.TimeoutError is re-raised as an Exception
HandlerExit(outcome) ==
  IF outcome = "ok" THEN "del" ELSE "retry_check"

\* asyncio.wait_for(job.handle(), timeout): it returns, raises or times out
Handle(w) ==
  /\ UNCHANGED mgrVars
  /\ pc[w] = "handle"
  /\ starts' = [starts EXCEPT ![job_data[w].id] = @ + 1]
  /\ \E outcome \in {"ok", "Handler", "Timeout"} :
       /\ pc' = [pc EXCEPT ![w] = HandlerExit(outcome)]
       /\ IF outcome = "ok"
          THEN /\ handlerOk' = [handlerOk EXCEPT ![w] = TRUE]
               /\ ctx' = [ctx EXCEPT ![w] = "success"]
               /\ UNCHANGED exc
          ELSE /\ exc' = [exc EXCEPT ![w] = outcome]
               /\ UNCHANGED <<handlerOk, ctx>>
  /\ UNCHANGED <<job_data, job_json, avail, current_time, failRan, hookOk, stored, rows, failedStore,
                 skipped, faults, claims, removed>>
  /\ UNCHANGED envVars
  /\ UNCHANGED redisVars
  /\ UNCHANGED dueAt
  /\ UNCHANGED loopVars
  /\ UNCHANGED ceilVars

\* a faulty variant of the start of the handler: the handler is started and
\* not awaited, _process_job goes on as if it had returned
HandleStartDetached(w) ==
  /\ UNCHANGED mgrVars
  /\ pc[w] = "handle"
  /\ starts' = [starts EXCEPT ![job_data[w].id] = @ + 1]
  /\ running' = [running EXCEPT ![w] = @ + 1]
  /\ handlerOk' = [handlerOk EXCEPT ![w] = TRUE]
  /\ ctx' = [ctx EXCEPT ![w] = "success"]
  /\ pc' = [pc EXCEPT ![w] = "del"]
  /\ UNCHANGED <<job_data, job_json, avail, current_time, exc, failRan, hookOk, stored>>
  /\ UNCHANGED <<rows, failedStore, skipped, faults, claims, removed>>
  /\ UNCHANGED <<should_quit, paused, stopJob, slept>>
  /\ UNCHANGED envVars
  /\ UNCHANGED redisVars
  /\ UNCHANGED dueAt
  /\ UNCHANGED ceilVars

\* asyncio.wait_for(job.handle(), timeout), its start: the handler runs and
\* _process_job waits for it
HandleStart(w) ==
  /\ UNCHANGED mgrVars
  /\ pc[w] = "handle"
  /\ starts' = [starts EXCEPT ![job_data[w].id] = @ + 1]
  /\ running' = [running EXCEPT ![w] = @ + 1]
  /\ pc' = [pc EXCEPT ![w] = "running"]
  /\ UNCHANGED <<rows, failedStore, skipped, faults, claims, removed>>
  /\ UNCHANGED <<should_quit, paused, stopJob, slept>>
  /\ UNCHANGED envVars
  /\ UNCHANGED redisVars
  /\ UNCHANGED callVars
  /\ UNCHANGED trailVars
  /\ UNCHANGED dueAt
  /\ UNCHANGED ceilVars

\* asyncio.wait_for(job.handle(), timeout), its end: the handler returns or
\* raises, or the timeout cancels it
HandleEnd(w) ==
  /\ UNCHANGED mgrVars
  /\ pc[w] = "running"
  /\ running' = [running EXCEPT ![w] = @ - 1]
  /\ \E outcome \in {"ok", "Handler", "Timeout"} :
       /\ pc' = [pc EXCEPT ![w] = HandlerExit(outcome)]
       /\ IF outcome = "ok"
          THEN /\ handlerOk' = [handlerOk EXCEPT ![w] = TRUE]
               /\ ctx' = [ctx EXCEPT ![w] = "success"]
               /\ UNCHANGED exc
          ELSE /\ exc' = [exc EXCEPT ![w] = outcome]
               /\ UNCHANGED <<handlerOk, ctx>>
  /\ UNCHANGED <<job_data, job_json, avail, current_time, failRan, hookOk, stored>>
  /\ UNCHANGED <<rows, failedStore, skipped, faults>>
  /\ UNCHANGED <<should_quit, paused, stopJob, slept>>
  /\ UNCHANGED envVars
  /\ UNCHANGED redisVars
  /\ UNCHANGED histVars
  /\ UNCHANGED dueAt
  /\ UNCHANGED ceilVars

\* the except block of _process_job: release for a retry, or fail the job
RetryCheck(w) ==
  /\ UNCHANGED mgrVars
  /\ pc[w] = "retry_check"
  /\ IF ShouldRetry(job_data[w].attempts, EffectiveMaxTries(w, job_data[w].payload))
     THEN /\ ctx' = [ctx EXCEPT ![w] = "retry"]
          /\ pc' = [pc EXCEPT ![w] = "rel"]
     ELSE /\ ctx' = [ctx EXCEPT ![w] = "exhausted"]
          /\ pc' = [pc EXCEPT ![w] = "fail_hook"]
  /\ UNCHANGED <<job_data, job_json, avail, current_time, exc, rows, failedStore, skipped, faults>>
  /\ UNCHANGED envVars
  /\ UNCHANGED redisVars
  /\ UNCHANGED trailVars
  /\ UNCHANGED histVars
  /\ UNCHANGED dueAt
  /\ UNCHANGED loopVars
  /\ UNCHANGED ceilVars

\* _fail_job: await job.failed(exception); an exception of the hook is logged
\* and _fail_job returns without calling driver.failed
FailHook(w) ==
  /\ UNCHANGED mgrVars
  /\ pc[w] = "fail_hook"
  /\ failRan' = [failRan EXCEPT ![w] = TRUE]
  /\ \E returns \in BOOLEAN :
       IF returns
       THEN /\ hookOk' = [hookOk EXCEPT ![w] = TRUE]
            /\ pc' = [pc EXCEPT ![w] = "fail_store"]
       ELSE /\ hookOk' = [hookOk EXCEPT ![w] = FALSE]
            /\ pc' = [pc EXCEPT ![w] = "del"]
  /\ UNCHANGED <<handlerOk, stored, rows, failedStore, skipped, faults>>
  /\ UNCHANGED envVars
  /\ UNCHANGED redisVars
  /\ UNCHANGED callVars
  /\ UNCHANGED histVars
  /\ UNCHANGED dueAt
  /\ UNCHANGED loopVars
  /\ UNCHANGED ceilVars

\* the Failed Job Record _fail_job hands to driver.failed: payload is
\* job.serialize(), exception the text of the exception being handled
FailedRecord(w) ==
  [entry |-> job_data[w].id,
   payload |-> Serialize(Unserialize(job_data[w].payload)),
   exception |-> exc[w]]

\* RedisQueue.failed: the record is stored
RedisFailedStore(w) ==
  /\ UNCHANGED mgrVars
  /\ pc[w] = "fail_store"
  /\ failedStore' = Append(failedStore, FailedRecord(w))
  /\ stored' = [stored EXCEPT ![w] = TRUE]
  /\ pc' = [pc EXCEPT ![w] = "del"]
  /\ UNCHANGED <<handlerOk, failRan, hookOk, rows, skipped, faults>>
  /\ UNCHANGED envVars
  /\ UNCHANGED redisVars
  /\ UNCHANGED callVars
  /\ UNCHANGED histVars
  /\ UNCHANGED dueAt
  /\ UNCHANGED loopVars
  /\ UNCHANGED ceilVars

\* RedisQueue.failed: the write raises, the exception is logged and swallowed
RedisFailedRaises(w) ==
  /\ UNCHANGED mgrVars
  /\ pc[w] = "fail_store"
  /\ faults < MaxFaults
  /\ faults' = faults + 1
  /\ pc' = [pc EXCEPT ![w] = "del"]
  /\ UNCHANGED <<rows, failedStore, skipped>>
  /\ UNCHANGED envVars
  /\ UNCHANGED redisVars
  /\ UNCHANGED callVars
  /\ UNCHANGED trailVars
  /\ UNCHANGED histVars
  /\ UNCHANGED dueAt
  /\ UNCHANGED loopVars
  /\ UNCHANGED ceilVars

\* driver.delete raises: inside the try block of _process_job the except block
\* takes over; inside the except block the loop of work() catches it
DeleteRaises(w) ==
  /\ UNCHANGED mgrVars
  /\ pc[w] = "del"
  /\ faults < MaxFaults
  /\ faults' = faults + 1
  /\ IF ctx[w] \in {"success", "exceeded"}
     THEN /\ exc' = [exc EXCEPT ![w] = "Delete"]
          /\ pc' = [pc EXCEPT ![w] = "retry_check"]
          /\ UNCHANGED <<job_data, job_json, avail, current_time, ctx>>
          /\ UNCHANGED trailVars
     ELSE Return(w)
  /\ UNCHANGED <<rows, failedStore, skipped>>
  /\ UNCHANGED envVars
  /\ UNCHANGED redisVars
  /\ UNCHANGED histVars
  /\ UNCHANGED dueAt
  /\ UNCHANGED loopVars
  /\ UNCHANGED ceilVars

\* a faulty variant of a raising release: the exception escapes the loop of
\* work() and ends the worker
ReleaseRaisesKills(w) ==
  /\ UNCHANGED mgrVars
  /\ pc[w] \in {"rel", "rel_add"}
  /\ faults < MaxFaults
  /\ faults' = faults + 1
  /\ pc' = [pc EXCEPT ![w] = "dead"]
  /\ UNCHANGED <<rows, failedStore, skipped>>
  /\ UNCHANGED envVars
  /\ UNCHANGED redisVars
  /\ UNCHANGED callVars
  /\ UNCHANGED trailVars
  /\ UNCHANGED histVars
  /\ UNCHANGED dueAt
  /\ UNCHANGED loopVars
  /\ UNCHANGED ceilVars

\* driver.release raises (at its first command, or after the LREM): the loop
\* of work() catches the exception, sleeps and polls again
ReleaseRaises(w) ==
  /\ UNCHANGED mgrVars
  /\ pc[w] \in {"rel", "rel_add"}
  /\ faults < MaxFaults
  /\ faults' = faults + 1
  /\ Return(w)
  /\ UNCHANGED <<rows, failedStore, skipped>>
  /\ UNCHANGED envVars
  /\ UNCHANGED redisVars
  /\ UNCHANGED histVars
  /\ UNCHANGED dueAt
  /\ UNCHANGED loopVars
  /\ UNCHANGED ceilVars

(* ------------------- RedisQueue.delete and release -------------------- *)

\* RedisQueue.size: LLEN of the ready list plus ZCARD of the delayed set
RedisSize == Len(ready) + Cardinality(delayed)


\* delete: LRANGE reserved 0 -1 and the search for job_id
RedisDeleteScan(w) ==
  /\ UNCHANGED mgrVars
  /\ pc[w] = "del"
  /\ IF FindById(reserved, job_data[w].id) = NoJob
     THEN Return(w) /\ Counted(w)
     ELSE /\ job_json' = [job_json EXCEPT ![w] = FindById(reserved, job_data[w].id)]
          /\ pc' = [pc EXCEPT ![w] = "del_lrem"]
          /\ UNCHANGED <<job_data, avail, current_time, ctx, exc>>
          /\ UNCHANGED trailVars
          /\ UNCHANGED jobs_processed
  /\ UNCHANGED <<rows, failedStore, skipped, faults>>
  /\ UNCHANGED envVars
  /\ UNCHANGED redisVars
  /\ UNCHANGED histVars
  /\ UNCHANGED dueAt
  /\ UNCHANGED loopVars
  /\ UNCHANGED <<max_jobs, max_time, taken>>

\* delete: LREM reserved 1 job_json
RedisDeleteLrem(w) ==
  /\ UNCHANGED mgrVars
  /\ pc[w] = "del_lrem"
  /\ reserved' = LRem(reserved, job_json[w])
  /\ removed' = removed \cup {job_data[w].id}
  /\ Return(w)
  /\ UNCHANGED <<ready, delayed, rows, failedStore, skipped, faults, claims, starts>>
  /\ UNCHANGED envVars
  /\ UNCHANGED dueAt
  /\ UNCHANGED loopVars
  /\ Counted(w)
  /\ UNCHANGED <<max_jobs, max_time, taken>>

\* release: LRANGE reserved 0 -1 and the search for job_id
RedisReleaseScan(w) ==
  /\ UNCHANGED mgrVars
  /\ pc[w] = "rel"
  /\ IF FindById(reserved, job_data[w].id) = NoJob
     THEN Return(w) /\ Counted(w)
     ELSE /\ job_json' = [job_json EXCEPT ![w] = FindById(reserved, job_data[w].id)]
          /\ pc' = [pc EXCEPT ![w] = "rel_lrem"]
          /\ UNCHANGED <<job_data, avail, current_time, ctx, exc>>
          /\ UNCHANGED trailVars
          /\ UNCHANGED jobs_processed
  /\ UNCHANGED <<rows, failedStore, skipped, faults>>
  /\ UNCHANGED envVars
  /\ UNCHANGED redisVars
  /\ UNCHANGED histVars
  /\ UNCHANGED dueAt
  /\ UNCHANGED loopVars
  /\ UNCHANGED <<max_jobs, max_time, taken>>

\* release: LREM reserved 1 job_json
RedisReleaseLrem(w) ==
  /\ UNCHANGED mgrVars
  /\ pc[w] = "rel_lrem"
  /\ reserved' = LRem(reserved, job_json[w])
  /\ pc' = [pc EXCEPT ![w] = "rel_add"]
  /\ UNCHANGED <<ready, delayed, rows, failedStore, skipped, faults>>
  /\ UNCHANGED envVars
  /\ UNCHANGED callVars
  /\ UNCHANGED trailVars
  /\ UNCHANGED histVars
  /\ UNCHANGED dueAt
  /\ UNCHANGED loopVars
  /\ UNCHANGED ceilVars

\* release: ZADD delayed {job_json: now + delay}, or RPUSH queue job_json
RedisReleaseAdd(w) ==
  /\ UNCHANGED mgrVars
  /\ pc[w] = "rel_add"
  /\ IF RetryDelay(w) > 0
     THEN /\ delayed' = ZAdd(delayed, job_json[w], now + RetryDelay(w))
          /\ UNCHANGED ready
     ELSE /\ ready' = Append(ready, job_json[w])
          /\ UNCHANGED delayed
  /\ Return(w)
  /\ UNCHANGED <<reserved, rows, failedStore, skipped, faults>>
  /\ UNCHANGED envVars
  /\ UNCHANGED histVars
  /\ dueAt' = [dueAt EXCEPT ![job_json[w].id] = now + RetryDelay(w)]
  /\ UNCHANGED loopVars
  /\ Counted(w)
  /\ UNCHANGED <<max_jobs, max_time, taken>>

(* --------------------------- DatabaseQueue ---------------------------- *)

\* DatabaseQueue.push: INSERT INTO queue_jobs, the id is the autoincrement key
DbPush ==
  /\ UNCHANGED mgrVars
  /\ pushed < MaxRows
  /\ \E payload \in Payloads, delay \in Delays :
       /\ rows' = rows \cup {[id |-> pushed + 1, payload |-> payload, attempts |-> 0,
                              reserved_at |-> Null, available_at |-> now + delay]}
       /\ dueAt' = [dueAt EXCEPT ![pushed + 1] = now + delay]
  /\ UNCHANGED loopVars
  /\ UNCHANGED ceilVars
  /\ pushed' = pushed + 1
  /\ UNCHANGED <<now, wMaxTries, failedStore, pc, skipped, faults>>
  /\ UNCHANGED redisVars
  /\ UNCHANGED callVars
  /\ UNCHANGED trailVars
  /\ UNCHANGED histVars

\* the row lock of SELECT ... FOR UPDATE, held until the transaction commits
LockedBy(w, r) == pc[w] = "db_commit" /\ job_json[w].id = r.id

LockedByOther(w, r) == \E o \in Workers \ {w} : LockedBy(o, r)

\* WHERE queue = :queue AND reserved_at IS NULL AND available_at <= utcnow()
Eligible(r) == r.reserved_at = Null /\ r.available_at <= now

\* a faulty variant of the select: rows locked by another transaction are
\* not skipped
SelectableLocked(w) == {r \in rows : Eligible(r)}

\* ... FOR UPDATE SKIP LOCKED: the rows the statement of worker w can return
Selectable(w) == {r \in rows : Eligible(r) /\ ~LockedByOther(w, r)}

\* a faulty variant of the ordering: the newest row first
LastById(S) == CHOOSE x \in S : \A y \in S : x.id >= y.id

\* ORDER BY id LIMIT 1: the row with the smallest id of a non-empty result
FirstById(S) == CHOOSE x \in S : \A y \in S : x.id <= y.id

\* pop: SELECT ... ORDER BY id LIMIT 1 FOR UPDATE SKIP LOCKED; no row makes
\* pop return None
DbPopSelect(w) ==
  /\ UNCHANGED mgrVars
  /\ pc[w] = "pop"
  /\ mysql_enabled
  /\ LoopProceeds(w)
  /\ IF Selectable(w) = {}
     THEN /\ Return(w)
          /\ skipped' = [skipped EXCEPT ![w] = \E r \in rows : Eligible(r)]
     ELSE LET r == FirstById(Selectable(w))
          IN /\ job_json' = [job_json EXCEPT ![w] =
                               [id |-> r.id, payload |-> r.payload, attempts |-> r.attempts]]
             /\ pc' = [pc EXCEPT ![w] = "db_commit"]
             /\ skipped' = [skipped EXCEPT ![w] = FALSE]
             /\ UNCHANGED <<job_data, avail, current_time, ctx, exc>>
             /\ UNCHANGED trailVars
  /\ UNCHANGED <<rows, failedStore, faults>>
  /\ UNCHANGED envVars
  /\ UNCHANGED redisVars
  /\ UNCHANGED histVars
  /\ UNCHANGED dueAt
  /\ UNCHANGED loopVars
  /\ UNCHANGED ceilVars

\* pop: job.reserved_at = utcnow(); job.attempts += 1; commit; return the row
DbPopCommit(w) ==
  /\ UNCHANGED mgrVars
  /\ pc[w] = "db_commit"
  /\ rows' = {IF r.id = job_json[w].id
              THEN [r EXCEPT !.reserved_at = now, !.attempts = r.attempts + 1]
              ELSE r : r \in rows}
  /\ job_data' = [job_data EXCEPT ![w] = Claimed(job_json[w])]
  /\ claims' = [claims EXCEPT ![job_json[w].id] = @ + 1]
  /\ pc' = [pc EXCEPT ![w] = "process"]
  /\ UNCHANGED <<job_json, avail, current_time, ctx, exc, failedStore, skipped, faults, starts,
                 removed>>
  /\ UNCHANGED envVars
  /\ UNCHANGED redisVars
  /\ UNCHANGED trailVars
  /\ UNCHANGED dueAt
  /\ UNCHANGED loopVars
  /\ Taken(w)
  /\ UNCHANGED <<max_jobs, max_time, jobs_processed>>

\* release: UPDATE queue_jobs SET reserved_at = NULL, available_at = :t
\* WHERE id = :id AND queue = :queue
DbRelease(w) ==
  /\ UNCHANGED mgrVars
  /\ pc[w] = "rel"
  /\ mysql_enabled
  /\ \A r \in rows : r.id = job_data[w].id => ~LockedByOther(w, r)
  /\ rows' = {IF r.id = job_data[w].id
              THEN [r EXCEPT !.reserved_at = Null, !.available_at = now + RetryDelay(w)]
              ELSE r : r \in rows}
  /\ Return(w)
  /\ UNCHANGED <<failedStore, skipped, faults>>
  /\ UNCHANGED envVars
  /\ UNCHANGED redisVars
  /\ UNCHANGED histVars
  /\ dueAt' = [dueAt EXCEPT ![job_data[w].id] = now + RetryDelay(w)]
  /\ UNCHANGED loopVars
  /\ Counted(w)
  /\ UNCHANGED <<max_jobs, max_time, taken>>

\* DatabaseQueue.size: the rows of the queue with reserved_at IS NULL
DbSize == Cardinality({r \in rows : r.reserved_at = Null})

\* delete: DELETE FROM queue_jobs WHERE id = :id AND queue = :queue
DbDelete(w) ==
  /\ UNCHANGED mgrVars
  /\ pc[w] = "del"
  /\ mysql_enabled
  /\ \A r \in rows : r.id = job_data[w].id => ~LockedByOther(w, r)
  /\ rows' = {r \in rows : r.id # job_data[w].id}
  /\ removed' = IF \E r \in rows : r.id = job_data[w].id
                THEN removed \cup {job_data[w].id} ELSE removed
  /\ Return(w)
  /\ UNCHANGED <<failedStore, skipped, faults, claims, starts>>
  /\ UNCHANGED envVars
  /\ UNCHANGED redisVars
  /\ UNCHANGED dueAt
  /\ UNCHANGED loopVars
  /\ Counted(w)
  /\ UNCHANGED <<max_jobs, max_time, taken>>

\* DatabaseQueue.failed: INSERT INTO queue_failed_jobs and commit
DbFailedStore(w) ==
  /\ UNCHANGED mgrVars
  /\ pc[w] = "fail_store"
  /\ mysql_enabled
  /\ failedStore' = Append(failedStore, FailedRecord(w))
  /\ stored' = [stored EXCEPT ![w] = TRUE]
  /\ pc' = [pc EXCEPT ![w] = "del"]
  /\ UNCHANGED <<handlerOk, failRan, hookOk, rows, skipped, faults>>
  /\ UNCHANGED envVars
  /\ UNCHANGED redisVars
  /\ UNCHANGED callVars
  /\ UNCHANGED histVars
  /\ UNCHANGED dueAt
  /\ UNCHANGED loopVars
  /\ UNCHANGED ceilVars

\* DatabaseQueue.failed: the write raises, is rolled back and re-raised, and
\* _fail_job logs the exception
DbFailedRaises(w) ==
  /\ UNCHANGED mgrVars
  /\ pc[w] = "fail_store"
  /\ faults < MaxFaults
  /\ faults' = faults + 1
  /\ pc' = [pc EXCEPT ![w] = "del"]
  /\ UNCHANGED <<rows, failedStore, skipped>>
  /\ UNCHANGED envVars
  /\ UNCHANGED redisVars
  /\ UNCHANGED callVars
  /\ UNCHANGED trailVars
  /\ UNCHANGED histVars
  /\ UNCHANGED dueAt
  /\ UNCHANGED loopVars
  /\ UNCHANGED ceilVars

\* DatabaseQueue.push with delay 0, as QueueManager.push calls it
DbPushNow ==
  /\ UNCHANGED mgrVars
  /\ pushed < MaxReady
  /\ \E payload \in Payloads :
       rows' = rows \cup {[id |-> pushed + 1, payload |-> payload, attempts |-> 0,
                           reserved_at |-> Null, available_at |-> now]}
  /\ pushed' = pushed + 1
  /\ UNCHANGED <<now, wMaxTries, failedStore, pc, skipped, faults>>
  /\ UNCHANGED redisVars
  /\ UNCHANGED callVars
  /\ UNCHANGED trailVars
  /\ UNCHANGED histVars
  /\ dueAt' = [dueAt EXCEPT ![pushed + 1] = now]
  /\ UNCHANGED loopVars
  /\ UNCHANGED ceilVars

(* ------------------------------ crashes ------------------------------- *)

\* a worker process dies between two commands: whatever it was about to do
\* is never done; its locals are kept to tell which entry it was working on
Crash(w) ==
  /\ UNCHANGED mgrVars
  /\ pc[w] \notin {"pop", "dead"}
  /\ faults < MaxFaults
  /\ faults' = faults + 1
  /\ pc' = [pc EXCEPT ![w] = "dead"]
  /\ UNCHANGED <<rows, failedStore, skipped>>
  /\ UNCHANGED envVars
  /\ UNCHANGED redisVars
  /\ UNCHANGED callVars
  /\ UNCHANGED trailVars
  /\ UNCHANGED histVars
  /\ UNCHANGED dueAt
  /\ UNCHANGED loopVars
  /\ UNCHANGED ceilVars

(* ------------------- stop, pause and the loop's exit ------------------ *)

\* the id of the entry worker w is processing, 0 when it holds none
InFlightId(w) == IF job_data[w] # NoJob THEN job_data[w].id ELSE 0

\* the first stop request notes the entry in flight
NoteStop(w) ==
  stopJob' = IF should_quit[w] THEN stopJob
             ELSE [stopJob EXCEPT ![w] = InFlightId(w)]

\* a faulty variant of the signal handler: the signal ends the worker where
\* it stands
HandleSignalKills(w) ==
  /\ UNCHANGED mgrVars
  /\ pc[w] \notin {"stopped", "dead"}
  /\ should_quit' = [should_quit EXCEPT ![w] = TRUE]
  /\ pc' = [pc EXCEPT ![w] = "stopped"]
  /\ NoteStop(w)
  /\ UNCHANGED <<rows, failedStore, skipped, faults, dueAt, paused, slept, running>>
  /\ UNCHANGED envVars
  /\ UNCHANGED redisVars
  /\ UNCHANGED callVars
  /\ UNCHANGED trailVars
  /\ UNCHANGED histVars
  /\ UNCHANGED ceilVars

\* _handle_signal (SIGTERM, SIGINT), at any point of the loop
HandleSignal(w) ==
  /\ UNCHANGED mgrVars
  /\ pc[w] \notin {"stopped", "dead"}
  /\ should_quit' = [should_quit EXCEPT ![w] = TRUE]
  /\ NoteStop(w)
  /\ UNCHANGED <<rows, failedStore, pc, skipped, faults, dueAt, paused, slept, running>>
  /\ UNCHANGED envVars
  /\ UNCHANGED redisVars
  /\ UNCHANGED callVars
  /\ UNCHANGED trailVars
  /\ UNCHANGED histVars
  /\ UNCHANGED ceilVars

\* stop()
Stop(w) ==
  /\ UNCHANGED mgrVars
  /\ pc[w] \notin {"stopped", "dead"}
  /\ should_quit' = [should_quit EXCEPT ![w] = TRUE]
  /\ NoteStop(w)
  /\ UNCHANGED <<rows, failedStore, pc, skipped, faults, dueAt, paused, slept, running>>
  /\ UNCHANGED envVars
  /\ UNCHANGED redisVars
  /\ UNCHANGED callVars
  /\ UNCHANGED trailVars
  /\ UNCHANGED histVars
  /\ UNCHANGED ceilVars

\* pause()
Pause(w) ==
  /\ UNCHANGED mgrVars
  /\ pc[w] \notin {"stopped", "dead"}
  /\ paused' = [paused EXCEPT ![w] = TRUE]
  /\ UNCHANGED <<rows, failedStore, pc, skipped, faults, dueAt, should_quit, stopJob,
                 slept, running>>
  /\ UNCHANGED envVars
  /\ UNCHANGED redisVars
  /\ UNCHANGED callVars
  /\ UNCHANGED trailVars
  /\ UNCHANGED histVars
  /\ UNCHANGED ceilVars

\* resume()
Resume(w) ==
  /\ UNCHANGED mgrVars
  /\ pc[w] \notin {"stopped", "dead"}
  /\ paused' = [paused EXCEPT ![w] = FALSE]
  /\ UNCHANGED <<rows, failedStore, pc, skipped, faults, dueAt, should_quit, stopJob,
                 slept, running>>
  /\ UNCHANGED envVars
  /\ UNCHANGED redisVars
  /\ UNCHANGED callVars
  /\ UNCHANGED trailVars
  /\ UNCHANGED histVars
  /\ UNCHANGED ceilVars

\* a faulty variant of the loop's exit: a paused worker sleeps before it
\* looks at should_quit
LoopExitUnlessPaused(w) ==
  /\ UNCHANGED mgrVars
  /\ pc[w] = "pop"
  /\ should_quit[w] \/ ShouldStop(w)
  /\ ~paused[w]
  /\ pc' = [pc EXCEPT ![w] = "stopped"]
  /\ UNCHANGED <<rows, failedStore, skipped, faults, dueAt>>
  /\ UNCHANGED loopVars
  /\ UNCHANGED ceilVars
  /\ UNCHANGED envVars
  /\ UNCHANGED redisVars
  /\ UNCHANGED callVars
  /\ UNCHANGED trailVars
  /\ UNCHANGED histVars

\* work(): while not self.should_quit fails, or _should_stop() breaks: the
\* worker leaves the loop
LoopExit(w) ==
  /\ UNCHANGED mgrVars
  /\ pc[w] = "pop"
  /\ should_quit[w] \/ ShouldStop(w)
  /\ pc' = [pc EXCEPT ![w] = "stopped"]
  /\ UNCHANGED <<rows, failedStore, skipped, faults, dueAt>>
  /\ UNCHANGED loopVars
  /\ UNCHANGED ceilVars
  /\ UNCHANGED envVars
  /\ UNCHANGED redisVars
  /\ UNCHANGED callVars
  /\ UNCHANGED trailVars
  /\ UNCHANGED histVars

\* work(): if self.paused: sleep; continue
LoopSleep(w) ==
  /\ pc[w] = "pop"
  /\ ~should_quit[w] /\ ~ShouldStop(w)
  /\ paused[w]
  /\ UNCHANGED vars

\* work(): if self.paused: sleep; continue, with a note of whether an entry
\* the worker could have claimed was waiting
LoopSleepNoted(w) ==
  /\ UNCHANGED mgrVars
  /\ pc[w] = "pop"
  /\ ~should_quit[w] /\ ~ShouldStop(w)
  /\ paused[w]
  /\ slept' = [slept EXCEPT ![w] = @ \/ Selectable(w) # {}]
  /\ UNCHANGED <<rows, failedStore, pc, skipped, faults, dueAt, should_quit, paused,
                 stopJob, running>>
  /\ UNCHANGED ceilVars
  /\ UNCHANGED envVars
  /\ UNCHANGED redisVars
  /\ UNCHANGED callVars
  /\ UNCHANGED trailVars
  /\ UNCHANGED histVars

(* --------------------------- specifications --------------------------- *)

WorkerStep(w) ==
  \/ Process(w)
  \/ Handle(w)
  \/ RetryCheck(w)
  \/ FailHook(w)
  \/ DeleteRaises(w)
  \/ ReleaseRaises(w)

RedisStep(w) ==
  \/ RedisMigrateRead(w)
  \/ RedisMigrateExec(w)
  \/ RedisPopMove(w)
  \/ RedisPopLrem(w)
  \/ RedisPopRpush(w)
  \/ RedisFailedStore(w)
  \/ RedisFailedRaises(w)
  \/ RedisDeleteScan(w)
  \/ RedisDeleteLrem(w)
  \/ RedisReleaseScan(w)
  \/ RedisReleaseLrem(w)
  \/ RedisReleaseAdd(w)

Next ==
  \/ Tick
  \/ RedisPush
  \/ \E w \in Workers : WorkerStep(w) \/ RedisStep(w)

Spec == Init /\ [][Next]_vars

DbStep(w) ==
  \/ DbPopSelect(w)
  \/ DbPopCommit(w)
  \/ DbFailedStore(w)
  \/ DbFailedRaises(w)
  \/ DbDelete(w)
  \/ DbRelease(w)

NextDb ==
  \/ Tick
  \/ DbPush
  \/ \E w \in Workers : WorkerStep(w) \/ DbStep(w)

SpecDb == Init /\ [][NextDb]_vars

NextCrash ==
  \/ Next
  \/ \E w \in Workers : Crash(w)

SpecCrash == Init /\ [][NextCrash]_vars

\* the steps of the Redis driver while the clock stands still: no delayed
\* entry becomes due, so the migration reads nothing and moves nothing
RedisNowStep(w) ==
  \/ RedisMigrateRead(w)
  \/ RedisPopMove(w)
  \/ RedisPopLrem(w)
  \/ RedisPopRpush(w)
  \/ RedisFailedStore(w)
  \/ RedisFailedRaises(w)
  \/ RedisDeleteScan(w)
  \/ RedisDeleteLrem(w)
  \/ RedisReleaseScan(w)
  \/ RedisReleaseLrem(w)
  \/ RedisReleaseAdd(w)

NextFifo ==
  \/ RedisPushNow
  \/ \E w \in Workers : WorkerStep(w) \/ RedisNowStep(w)

SpecFifo == Init /\ [][NextFifo]_vars

NextDbFifo ==
  \/ DbPushNow
  \/ \E w \in Workers : WorkerStep(w) \/ DbStep(w)

SpecDbFifo == Init /\ [][NextDbFifo]_vars

\* the relational driver, with stop requests, pause and resume
ControlStep(w) ==
  \/ HandleSignal(w)
  \/ Stop(w)
  \/ Pause(w)
  \/ Resume(w)

LoopStep(w) ==
  \/ LoopExit(w)
  \/ LoopSleep(w)

NextStop ==
  \/ DbPush
  \/ Tick
  \/ \E w \in Workers : WorkerStep(w) \/ DbStep(w) \/ LoopStep(w) \/ ControlStep(w)

SpecStop == Init /\ [][NextStop]_vars

\* every await of the loop returns: a handler returns, raises or times out,
\* a driver call returns or raises, a sleep elapses
FairStop ==
  SpecStop /\ \A w \in Workers : WF_vars(WorkerStep(w) \/ DbStep(w) \/ LoopStep(w))

\* SpecDb, where every await of the loop returns
FairDb ==
  SpecDb /\ \A w \in Workers : WF_vars(WorkerStep(w) \/ DbStep(w))

\* the relational driver with pushes without delay, workers with ceilings
NextCeil ==
  \/ DbPushNow
  \/ Tick
  \/ \E w \in Workers : WorkerStep(w) \/ DbStep(w) \/ LoopExit(w)

SpecCeil == InitCeil /\ [][NextCeil]_vars

\* the relational driver, workers that are paused and resumed
NextPause ==
  \/ DbPush
  \/ Tick
  \/ \E w \in Workers :
       WorkerStep(w) \/ DbStep(w) \/ LoopSleepNoted(w) \/ Pause(w) \/ Resume(w)

SpecPause == Init /\ [][NextPause]_vars

\* _process_job with the start and the end of the handler as two steps
WorkerStepRun(w) ==
  \/ Process(w)
  \/ HandleStart(w)
  \/ HandleEnd(w)
  \/ RetryCheck(w)
  \/ FailHook(w)
  \/ DeleteRaises(w)
  \/ ReleaseRaises(w)

\* the relational driver with pushes without delay, handlers that take time
NextRun ==
  \/ DbPushNow
  \/ Tick
  \/ \E w \in Workers : WorkerStepRun(w) \/ DbStep(w)

SpecRun == Init /\ [][NextRun]_vars

(* ---------------------------- QueueManager ---------------------------- *)

\* connection arguments of QueueManager.push: None (""), the two drivers and
\* a name that is neither
Connections == {"", "redis", "database", "sqs"}

\* values of QUEUE_CONNECTION
DefaultConnections == {"redis", "database"}

\* a faulty variant of get_driver: no fallback check of the relational
\* backend, the database driver is returned whether MySQL is enabled or not
GetDriverUnchecked(connection) ==
  LET requested == IF connection = "" THEN default_connection ELSE connection
  IN IF requested = "redis" /\ redis_enabled THEN "redis"
     ELSE IF requested \in {"redis", "database"} THEN "database"
     ELSE "RuntimeError"

\* QueueManager.get_driver: the driver for the connection, or RuntimeError
GetDriver(connection) ==
  LET requested == IF connection = "" THEN default_connection ELSE connection
      fallback == IF requested = "redis" /\ ~redis_enabled THEN "database"
                  ELSE requested
  IN IF requested = "redis" /\ redis_enabled THEN "redis"
     ELSE IF fallback = "database"
          THEN IF ~mysql_enabled THEN "RuntimeError" ELSE "database"
          ELSE "RuntimeError"

\* QueueManager.push: get_driver, job.serialize, driver.push with delay 0; the
\* driver's push raises when its store is disabled or the command fails
ManagerPush ==
  /\ pushed < MaxReady
  /\ \E connection \in Connections, job \in {LaterJob, SoonJob}, fails \in BOOLEAN :
       LET driver == GetDriver(connection)
           entry == [id |-> pushed + 1, payload |-> Serialize(job), attempts |-> 0]
           row == [id |-> pushed + 1, payload |-> Serialize(job), attempts |-> 0,
                   reserved_at |-> Null, available_at |-> now]
           disabled == \/ driver = "redis" /\ ~redis_enabled
                       \/ driver = "database" /\ ~mysql_enabled
       IN /\ fails => faults < MaxFaults /\ driver # "RuntimeError" /\ ~disabled
          /\ mgr_conn' = connection
          /\ mgr_driver' = driver
          /\ IF driver = "RuntimeError" \/ disabled \/ fails
             THEN /\ mgr_raised' = TRUE
                  /\ faults' = IF fails THEN faults + 1 ELSE faults
                  /\ UNCHANGED <<ready, rows, pushed, dueAt>>
             ELSE /\ mgr_raised' = FALSE
                  /\ ready' = IF driver = "redis" THEN Append(ready, entry) ELSE ready
                  /\ rows' = IF driver = "database" THEN rows \cup {row} ELSE rows
                  /\ pushed' = pushed + 1
                  /\ dueAt' = [dueAt EXCEPT ![pushed + 1] = now]
                  /\ UNCHANGED faults
  /\ UNCHANGED <<redis_enabled, mysql_enabled, default_connection, pop_error>>
  /\ UNCHANGED sizeVars
  /\ UNCHANGED serVars
  /\ UNCHANGED timeVars
  /\ UNCHANGED rateVars
  /\ UNCHANGED routerVars
  /\ UNCHANGED <<now, wMaxTries, delayed, reserved, failedStore, pc, skipped>>
  /\ UNCHANGED callVars
  /\ UNCHANGED trailVars
  /\ UNCHANGED histVars
  /\ UNCHANGED loopVars
  /\ UNCHANGED ceilVars

\* a store goes down or comes back: RedisManager connects or disconnects,
\* Model.configure or Model.cleanup sets _is_enabled
StoreChange ==
  /\ \/ redis_enabled' = ~redis_enabled /\ UNCHANGED mysql_enabled
     \/ mysql_enabled' = ~mysql_enabled /\ UNCHANGED redis_enabled
  /\ UNCHANGED <<default_connection, mgr_conn, mgr_driver, mgr_raised, pop_error>>
  /\ UNCHANGED sizeVars
  /\ UNCHANGED serVars
  /\ UNCHANGED timeVars
  /\ UNCHANGED rateVars
  /\ UNCHANGED routerVars
  /\ UNCHANGED <<rows, failedStore, pc, skipped, faults, dueAt>>
  /\ UNCHANGED envVars
  /\ UNCHANGED redisVars
  /\ UNCHANGED callVars
  /\ UNCHANGED trailVars
  /\ UNCHANGED histVars
  /\ UNCHANGED loopVars
  /\ UNCHANGED ceilVars

\* producers with any QUEUE_CONNECTION, the stores up or down
InitStores ==
  /\ InitQueue
  /\ max_jobs = [w \in Workers |-> 0]
  /\ max_time = [w \in Workers |-> 0]
  /\ redis_enabled \in BOOLEAN
  /\ mysql_enabled \in BOOLEAN
  /\ default_connection \in DefaultConnections
  /\ InitManager
  /\ NoSerial
  /\ NoTimeouts
  /\ NoRequests

\* producers dispatching through the QueueManager while stores go up and down
NextManager ==
  \/ ManagerPush
  \/ StoreChange

SpecManager == InitStores /\ [][NextManager]_vars

(* -------------------- a store that is down or fails ------------------- *)

\* driver.push with delay 0 on a driver selected earlier: RuntimeError when
\* its store is disabled, the exception of the failing command re-raised,
\* and otherwise the entry is stored
DriverPush(driver) ==
  /\ pushed < MaxRows
  /\ \E job \in {LaterJob, SoonJob}, fails \in BOOLEAN :
       LET entry == [id |-> pushed + 1, payload |-> Serialize(job), attempts |-> 0]
           row == [id |-> pushed + 1, payload |-> Serialize(job), attempts |-> 0,
                   reserved_at |-> Null, available_at |-> now]
           disabled == \/ driver = "redis" /\ ~redis_enabled
                       \/ driver = "database" /\ ~mysql_enabled
       IN /\ fails => faults < MaxFaults /\ ~disabled
          /\ mgr_conn' = driver
          /\ mgr_driver' = driver
          /\ IF disabled \/ fails
             THEN /\ mgr_raised' = TRUE
                  /\ faults' = IF fails THEN faults + 1 ELSE faults
                  /\ UNCHANGED <<ready, rows, pushed, dueAt>>
             ELSE /\ mgr_raised' = FALSE
                  /\ ready' = IF driver = "redis" THEN Append(ready, entry) ELSE ready
                  /\ rows' = IF driver = "database" THEN rows \cup {row} ELSE rows
                  /\ pushed' = pushed + 1
                  /\ dueAt' = [dueAt EXCEPT ![pushed + 1] = now]
                  /\ UNCHANGED faults
  /\ UNCHANGED storeFlags
  /\ UNCHANGED pop_error
  /\ UNCHANGED sizeVars
  /\ UNCHANGED serVars
  /\ UNCHANGED timeVars
  /\ UNCHANGED rateVars
  /\ UNCHANGED routerVars
  /\ UNCHANGED <<now, wMaxTries, delayed, reserved, failedStore, pc, skipped>>
  /\ UNCHANGED callVars
  /\ UNCHANGED trailVars
  /\ UNCHANGED histVars
  /\ UNCHANGED loopVars
  /\ UNCHANGED ceilVars

\* Model._is_enabled is set or cleared while the workers run
MysqlChange ==
  /\ mysql_enabled' = ~mysql_enabled
  /\ UNCHANGED <<redis_enabled, default_connection, pop_error>>
  /\ UNCHANGED sizeVars
  /\ UNCHANGED serVars
  /\ UNCHANGED timeVars
  /\ UNCHANGED rateVars
  /\ UNCHANGED routerVars
  /\ UNCHANGED pushOut
  /\ UNCHANGED <<rows, failedStore, pc, skipped, faults, dueAt>>
  /\ UNCHANGED envVars
  /\ UNCHANGED redisVars
  /\ UNCHANGED callVars
  /\ UNCHANGED trailVars
  /\ UNCHANGED histVars
  /\ UNCHANGED loopVars
  /\ UNCHANGED ceilVars

\* DatabaseQueue.pop, MySQL disabled: an error is logged and None returned
DbPopDisabled(w) ==
  /\ pc[w] = "pop"
  /\ LoopProceeds(w)
  /\ ~mysql_enabled
  /\ pop_error' = [pop_error EXCEPT ![w] = "None"]
  /\ skipped' = [skipped EXCEPT ![w] = \E r \in rows : Eligible(r)]
  /\ Return(w)
  /\ UNCHANGED storeFlags
  /\ UNCHANGED pushOut
  /\ UNCHANGED sizeVars
  /\ UNCHANGED serVars
  /\ UNCHANGED timeVars
  /\ UNCHANGED rateVars
  /\ UNCHANGED routerVars
  /\ UNCHANGED <<rows, failedStore, faults>>
  /\ UNCHANGED envVars
  /\ UNCHANGED redisVars
  /\ UNCHANGED histVars
  /\ UNCHANGED dueAt
  /\ UNCHANGED loopVars
  /\ UNCHANGED ceilVars

\* DatabaseQueue.pop, the SELECT or the commit raises: except Exception rolls
\* back, logs and returns None; the row is as it was
DbPopRaises(w) ==
  /\ \/ pc[w] = "pop" /\ LoopProceeds(w) /\ mysql_enabled
     \/ pc[w] = "db_commit"
  /\ faults < MaxFaults
  /\ faults' = faults + 1
  /\ pop_error' = [pop_error EXCEPT ![w] = "None"]
  /\ skipped' = [skipped EXCEPT ![w] = \E r \in rows : Eligible(r)]
  /\ Return(w)
  /\ UNCHANGED storeFlags
  /\ UNCHANGED pushOut
  /\ UNCHANGED sizeVars
  /\ UNCHANGED serVars
  /\ UNCHANGED timeVars
  /\ UNCHANGED rateVars
  /\ UNCHANGED routerVars
  /\ UNCHANGED <<rows, failedStore>>
  /\ UNCHANGED envVars
  /\ UNCHANGED redisVars
  /\ UNCHANGED histVars
  /\ UNCHANGED dueAt
  /\ UNCHANGED loopVars
  /\ UNCHANGED ceilVars

\* DatabaseQueue.pop, the commit is done and session.refresh(job) raises:
\* the rollback has nothing to undo and None is returned
DbPopRefreshRaises(w) ==
  /\ pc[w] = "db_commit"
  /\ faults < MaxFaults
  /\ faults' = faults + 1
  /\ rows' = {IF r.id = job_json[w].id
              THEN [r EXCEPT !.reserved_at = now, !.attempts = r.attempts + 1]
              ELSE r : r \in rows}
  /\ pop_error' = [pop_error EXCEPT ![w] = "None"]
  /\ Return(w)
  /\ UNCHANGED storeFlags
  /\ UNCHANGED pushOut
  /\ UNCHANGED sizeVars
  /\ UNCHANGED serVars
  /\ UNCHANGED timeVars
  /\ UNCHANGED rateVars
  /\ UNCHANGED routerVars
  /\ UNCHANGED <<failedStore, skipped>>
  /\ UNCHANGED envVars
  /\ UNCHANGED redisVars
  /\ UNCHANGED histVars
  /\ UNCHANGED dueAt
  /\ UNCHANGED loopVars
  /\ UNCHANGED ceilVars

\* DatabaseQueue.release and DatabaseQueue.delete, MySQL disabled: an error
\* is logged and the call returns, nothing written
DbSettleDisabled(w) ==
  /\ UNCHANGED mgrVars
  /\ pc[w] \in {"rel", "del"}
  /\ ~mysql_enabled
  /\ Return(w)
  /\ Counted(w)
  /\ UNCHANGED <<max_jobs, max_time, taken>>
  /\ UNCHANGED <<rows, failedStore, skipped, faults>>
  /\ UNCHANGED envVars
  /\ UNCHANGED redisVars
  /\ UNCHANGED histVars
  /\ UNCHANGED dueAt
  /\ UNCHANGED loopVars

\* DatabaseQueue.failed, MySQL disabled: an error is logged and the call
\* returns, no record written
DbFailedDisabled(w) ==
  /\ UNCHANGED mgrVars
  /\ pc[w] = "fail_store"
  /\ ~mysql_enabled
  /\ pc' = [pc EXCEPT ![w] = "del"]
  /\ UNCHANGED <<rows, failedStore, skipped, faults>>
  /\ UNCHANGED envVars
  /\ UNCHANGED redisVars
  /\ UNCHANGED callVars
  /\ UNCHANGED trailVars
  /\ UNCHANGED histVars
  /\ UNCHANGED dueAt
  /\ UNCHANGED loopVars
  /\ UNCHANGED ceilVars

DbDownStep(w) ==
  \/ DbPopDisabled(w)
  \/ DbPopRaises(w)
  \/ DbPopRefreshRaises(w)
  \/ DbSettleDisabled(w)
  \/ DbFailedDisabled(w)

\* the workers on the relational driver, selected while MySQL was enabled;
\* MySQL goes down and comes back, and any statement may fail
NextDown ==
  \/ Tick
  \/ MysqlChange
  \/ \E driver \in {"redis", "database"} : DriverPush(driver)
  \/ \E w \in Workers : WorkerStep(w) \/ DbStep(w) \/ DbDownStep(w)

SpecDown == Init /\ [][NextDown]_vars

(* ------------------------------- size --------------------------------- *)

\* ids of the entries in the ready list or the delayed set
RedisUnreserved == {ready[i].id : i \in 1..Len(ready)} \cup {e.job.id : e \in delayed}

\* what a size call changes: its own locals and result only
SizeFrame ==
  /\ UNCHANGED serVars
  /\ UNCHANGED timeVars
  /\ UNCHANGED rateVars
  /\ UNCHANGED routerVars
  /\ UNCHANGED storeFlags
  /\ UNCHANGED pushOut
  /\ UNCHANGED pop_error
  /\ UNCHANGED <<rows, failedStore, pc, skipped, dueAt>>
  /\ UNCHANGED envVars
  /\ UNCHANGED redisVars
  /\ UNCHANGED callVars
  /\ UNCHANGED trailVars
  /\ UNCHANGED histVars
  /\ UNCHANGED loopVars
  /\ UNCHANGED ceilVars

\* RedisQueue.size: main_count = LLEN queue
RedisSizeLlen ==
  /\ main_count = Null
  /\ redis_enabled
  /\ main_count' = Len(ready)
  /\ size_out' = Null
  /\ size_then' = Cardinality(RedisUnreserved)
  /\ UNCHANGED faults
  /\ SizeFrame

\* RedisQueue.size: delayed_count = ZCARD delayed; return main + delayed
RedisSizeZcard ==
  /\ main_count # Null
  /\ size_out' = main_count + Cardinality(delayed)
  /\ main_count' = Null
  /\ UNCHANGED <<size_then, faults>>
  /\ SizeFrame

\* RedisQueue.size: a command raises, the exception is logged and 0 returned
RedisSizeRaises ==
  /\ redis_enabled
  /\ faults < MaxFaults
  /\ faults' = faults + 1
  /\ size_out' = 0
  /\ main_count' = Null
  /\ size_then' = IF main_count = Null THEN Cardinality(RedisUnreserved) ELSE size_then
  /\ SizeFrame

\* the workers of Spec built with max_tries=None
InitSize ==
  /\ Init
  /\ wMaxTries = [w \in Workers |-> 0]

\* the workers on the Redis driver and a caller of size
NextSize ==
  \/ Tick
  \/ RedisPush
  \/ RedisSizeLlen
  \/ RedisSizeZcard
  \/ RedisSizeRaises
  \/ \E w \in Workers : WorkerStep(w) \/ RedisStep(w)

SpecSize == InitSize /\ [][NextSize]_vars

(* ------------------- serialize and unserialize a job ------------------ *)

\* what the steps on a job instance leave alone: the queue and the workers
SerialFrame ==
  /\ UNCHANGED timeVars
  /\ UNCHANGED rateVars
  /\ UNCHANGED routerVars
  /\ UNCHANGED storeFlags
  /\ UNCHANGED pushOut
  /\ UNCHANGED pop_error
  /\ UNCHANGED sizeVars
  /\ UNCHANGED <<rows, failedStore, pc, skipped, faults, dueAt>>
  /\ UNCHANGED envVars
  /\ UNCHANGED redisVars
  /\ UNCHANGED callVars
  /\ UNCHANGED trailVars
  /\ UNCHANGED histVars
  /\ UNCHANGED loopVars
  /\ UNCHANGED ceilVars

\* payload = job.serialize()
SerializeJob ==
  /\ ser_payload = NoEnvelope
  /\ ser_payload' = JobSerialize(ser_job)
  /\ UNCHANGED <<ser_job, ser_restored>>
  /\ SerialFrame

\* an envelope written without one of the four optional fields
EnvelopeLacks(name) ==
  /\ ser_payload # NoEnvelope
  /\ ser_restored = NoInstance
  /\ name \notin ser_payload.lacks
  /\ ser_payload' = [ser_payload EXCEPT !.lacks = @ \cup {name}]
  /\ UNCHANGED <<ser_job, ser_restored>>
  /\ SerialFrame

\* restored_job = Job.unserialize(payload)
UnserializeJob ==
  /\ ser_payload # NoEnvelope
  /\ ser_restored = NoInstance
  /\ ser_restored' = JobUnserialize(ser_payload)
  /\ UNCHANGED <<ser_job, ser_payload>>
  /\ SerialFrame

\* a producer holding any of the job instances
InitSerial ==
  /\ InitQueue
  /\ max_jobs = [w \in Workers |-> 0]
  /\ max_time = [w \in Workers |-> 0]
  /\ redis_enabled = TRUE
  /\ mysql_enabled = TRUE
  /\ default_connection = "redis"
  /\ InitManager
  /\ wMaxTries = [w \in Workers |-> 0]
  /\ NoTimeouts
  /\ NoRequests
  /\ ser_job \in JobInstances
  /\ ser_payload = NoEnvelope
  /\ ser_restored = NoInstance

NextSerial ==
  \/ SerializeJob
  \/ \E name \in PropNames : EnvelopeLacks(name)
  \/ UnserializeJob

SpecSerial == InitSerial /\ [][NextSerial]_vars


(* ------------------ a worker that dies holding an entry --------------- *)

\* positions of _process_job at which the worker holds the entry pop gave it
\* and has not yet called driver.delete or driver.release
HoldingPcs == {"process", "handle", "retry_check", "fail_hook", "fail_store", "del", "rel"}

\* the worker process dies while it holds an entry
CrashHolding(w) ==
  /\ pc[w] \in HoldingPcs
  /\ Crash(w)

\* the workers on the Redis driver, one of which may die holding an entry
NextReclaim ==
  \/ Next
  \/ \E w \in Workers : CrashHolding(w)

SpecReclaim == Init /\ [][NextReclaim]_vars

\* the same on the Redis driver with pushes at delay 0 and a standing clock
NextFifoReclaim ==
  \/ NextFifo
  \/ \E w \in Workers : CrashHolding(w)

SpecFifoReclaim == Init /\ [][NextFifoReclaim]_vars

\* the same on the relational driver
NextDbReclaim ==
  \/ NextDbFifo
  \/ \E w \in Workers : CrashHolding(w)

SpecDbReclaim == Init /\ [][NextDbReclaim]_vars

(* ------------------------ the handler's deadline ---------------------- *)

\* timeout arguments of a QueueWorker: the default and an override
WorkerTimeouts == {DefaultWorkerTimeout, 30}

\* how long a handler takes, in seconds
Durations == {10, 45, 90}

\* timeout=job.timeout or self.timeout
EffectiveTimeout(w, payload) ==
  IF Unserialize(payload).timeout # 0 THEN Unserialize(payload).timeout ELSE wTimeout[w]

\* asyncio.wait_for(job.handle(), timeout=job.timeout or self.timeout): a
\* handler that takes longer than the deadline is cancelled and TimeoutError
\* raised; otherwise it returns or raises
HandleTimed(w) ==
  /\ pc[w] = "handle"
  /\ starts' = [starts EXCEPT ![job_data[w].id] = @ + 1]
  /\ \E duration \in Durations, raises \in BOOLEAN :
       LET outcome == IF duration > EffectiveTimeout(w, job_data[w].payload) THEN "Timeout"
                      ELSE IF raises THEN "Handler" ELSE "ok"
       IN /\ ran' = [ran EXCEPT ![w] = duration]
          /\ pc' = [pc EXCEPT ![w] = HandlerExit(outcome)]
          /\ IF outcome = "ok"
             THEN /\ handlerOk' = [handlerOk EXCEPT ![w] = TRUE]
                  /\ ctx' = [ctx EXCEPT ![w] = "success"]
                  /\ UNCHANGED exc
             ELSE /\ exc' = [exc EXCEPT ![w] = outcome]
                  /\ UNCHANGED <<handlerOk, ctx>>
  /\ UNCHANGED wTimeout
  /\ UNCHANGED rateVars
  /\ UNCHANGED routerVars
  /\ UNCHANGED storeFlags
  /\ UNCHANGED pushOut
  /\ UNCHANGED pop_error
  /\ UNCHANGED sizeVars
  /\ UNCHANGED serVars
  /\ UNCHANGED <<job_data, job_json, avail, current_time, failRan, hookOk, stored, rows,
                 failedStore, skipped, faults, claims, removed>>
  /\ UNCHANGED envVars
  /\ UNCHANGED redisVars
  /\ UNCHANGED dueAt
  /\ UNCHANGED loopVars
  /\ UNCHANGED ceilVars

\* workers built with or without a timeout argument
InitTimeout ==
  /\ InitQueue
  /\ max_jobs = [w \in Workers |-> 0]
  /\ max_time = [w \in Workers |-> 0]
  /\ redis_enabled = TRUE
  /\ mysql_enabled = TRUE
  /\ default_connection = "redis"
  /\ InitManager
  /\ NoSerial
  /\ wTimeout \in [Workers -> WorkerTimeouts]
  /\ ran = [w \in Workers |-> 0]
  /\ NoRequests

\* the workers on the relational driver, the handlers taking their time
NextTimeout ==
  \/ DbPush
  \/ \E w \in Workers :
       \/ Process(w)
       \/ HandleTimed(w)
       \/ RetryCheck(w)
       \/ FailHook(w)
       \/ DbStep(w)

SpecTimeout == InitTimeout /\ [][NextTimeout]_vars


(* --------------------- RedisQueue.push, the job id -------------------- *)

\* pushes made while the ids are observed
MaxIdPush == 3

\* int(time.time() * 1000000) at the clock reading t, in seconds
ClockId(t) == t * 1000000

\* RedisQueue.push, the id taken from the clock: "id" is
\* f"{queue}:{int(time.time() * 1000000)}", the queue being the one queue of
\* the model; a delayed job is a member of the sorted set, an immediate one
\* is appended to the list
RedisPushAtClock ==
  /\ pushed < MaxIdPush
  /\ \E payload \in Payloads, delay \in Delays :
       LET job == [id |-> ClockId(now), payload |-> payload, attempts |-> 0]
       IN IF delay > 0
          THEN /\ delayed' = ZAdd(delayed, job, now + delay)
               /\ UNCHANGED ready
          ELSE /\ ready' = Append(ready, job)
               /\ UNCHANGED delayed
  /\ pushed' = pushed + 1
  /\ UNCHANGED mgrVars
  /\ UNCHANGED <<now, wMaxTries, reserved, rows, failedStore, pc, skipped, faults, dueAt>>
  /\ UNCHANGED callVars
  /\ UNCHANGED trailVars
  /\ UNCHANGED histVars
  /\ UNCHANGED loopVars
  /\ UNCHANGED ceilVars

\* the clock moves on to its next reading
ClockTick ==
  /\ now < MaxTime
  /\ now' = now + 1
  /\ UNCHANGED mgrVars
  /\ UNCHANGED <<pushed, wMaxTries, rows, failedStore, pc, skipped, faults, dueAt>>
  /\ UNCHANGED redisVars
  /\ UNCHANGED callVars
  /\ UNCHANGED trailVars
  /\ UNCHANGED histVars
  /\ UNCHANGED loopVars
  /\ UNCHANGED ceilVars

\* callers that push while the clock runs, no worker
NextIds == RedisPushAtClock \/ ClockTick

SpecIds == Init /\ [][NextIds]_vars

(* ------------------------- eventual completion ------------------------ *)

\* the steps of a worker on the relational driver while the backend stays
\* available: no driver call raises
AvailableStep(w) ==
  \/ Process(w)
  \/ Handle(w)
  \/ RetryCheck(w)
  \/ FailHook(w)
  \/ DbPopSelect(w)
  \/ DbPopCommit(w)
  \/ DbFailedStore(w)
  \/ DbDelete(w)
  \/ DbRelease(w)

NextDone ==
  \/ Tick
  \/ DbPush
  \/ \E w \in Workers : AvailableStep(w)

\* the clock runs, every worker keeps running and every await returns
FairDone ==
  /\ Init
  /\ [][NextDone]_vars
  /\ WF_vars(Tick)
  /\ \A w \in Workers : WF_vars(AvailableStep(w))

(* ------------------- the two drivers, one caller ---------------------- *)

\* pushes of the caller
MaxBothPush == 2

\* what the calls of the caller leave alone
BothFrame ==
  /\ UNCHANGED <<now, wMaxTries, delayed, job_json, avail, current_time, ctx, exc, failedStore,
                 pc, skipped, faults, dueAt>>
  /\ UNCHANGED trailVars
  /\ UNCHANGED histVars
  /\ UNCHANGED loopVars
  /\ UNCHANGED ceilVars
  /\ UNCHANGED mgrVars

\* push(payload, queue, 0) on both drivers: RPUSH queue; INSERT a row that is
\* available now
BothPush ==
  /\ pushed < MaxBothPush
  /\ \E payload \in Payloads :
       /\ ready' = Append(ready, [id |-> pushed + 1, payload |-> payload, attempts |-> 0])
       /\ rows' = rows \cup {[id |-> pushed + 1, payload |-> payload, attempts |-> 0,
                              reserved_at |-> Null, available_at |-> now]}
  /\ pushed' = pushed + 1
  /\ UNCHANGED <<reserved, job_data>>
  /\ BothFrame

\* RedisQueue.pop run to its end by the one caller: RPOPLPUSH queue reserved,
\* attempts += 1, LREM and RPUSH of the reserved list; NoJob for None
RedisPopped ==
  IF ready = <<>> THEN NoJob ELSE Claimed(ready[Len(ready)])

\* DatabaseQueue.pop run to its end by the one caller: the first row by id that
\* is not reserved and is available, attempts += 1; NoJob for None
DbPopped ==
  IF {r \in rows : Eligible(r)} = {} THEN NoJob
  ELSE LET r == FirstById({r \in rows : Eligible(r)})
       IN [id |-> r.id, payload |-> r.payload, attempts |-> r.attempts + 1]

\* pop(queue) on both drivers; w1 holds what the key-value driver returned,
\* w2 what the relational driver returned
BothPop ==
  /\ job_data = [w \in Workers |-> NoJob]
  /\ \A i \in 1..Len(ready) : ready[i].attempts < MaxClaims
  /\ \A r \in rows : r.attempts < MaxClaims
  /\ job_data' = [w \in Workers |-> IF w = "w1" THEN RedisPopped ELSE DbPopped]
  /\ IF ready = <<>>
     THEN UNCHANGED <<ready, reserved>>
     ELSE /\ ready' = SubSeq(ready, 1, Len(ready) - 1)
          /\ reserved' = Append(LRem(<<ready[Len(ready)]>> \o reserved, ready[Len(ready)]),
                                RedisPopped)
  /\ rows' = {IF DbPopped # NoJob /\ r.id = DbPopped.id
              THEN [r EXCEPT !.reserved_at = now, !.attempts = r.attempts + 1]
              ELSE r : r \in rows}
  /\ UNCHANGED pushed
  /\ BothFrame

\* release(job_id, queue, 0) of the entry the last pop returned, on both
\* drivers: LREM reserved and RPUSH queue; UPDATE reserved_at = NULL,
\* available_at = utcnow()
BothRelease ==
  /\ \A w \in Workers : job_data[w] # NoJob
  /\ reserved' = LRem(reserved, FindById(reserved, job_data["w1"].id))
  /\ ready' = Append(ready, FindById(reserved, job_data["w1"].id))
  /\ rows' = {IF r.id = job_data["w2"].id
              THEN [r EXCEPT !.reserved_at = Null, !.available_at = now]
              ELSE r : r \in rows}
  /\ job_data' = [w \in Workers |-> NoJob]
  /\ UNCHANGED pushed
  /\ BothFrame

\* delete(job_id, queue) of the entry the last pop returned, on both drivers
BothDelete ==
  /\ \A w \in Workers : job_data[w] # NoJob
  /\ reserved' = LRem(reserved, FindById(reserved, job_data["w1"].id))
  /\ rows' = {r \in rows : r.id # job_data["w2"].id}
  /\ job_data' = [w \in Workers |-> NoJob]
  /\ UNCHANGED <<pushed, ready>>
  /\ BothFrame

\* the caller has looked at what pop returned and calls pop again later
BothKeep ==
  /\ \E w \in Workers : job_data[w] # NoJob
  /\ job_data' = [w \in Workers |-> NoJob]
  /\ UNCHANGED <<pushed, ready, reserved, rows>>
  /\ BothFrame

NextBoth == BothPush \/ BothPop \/ BothRelease \/ BothDelete \/ BothKeep

SpecBoth == Init /\ [][NextBoth]_vars

(* ------------- RateLimitMiddleware, strategy sliding_window ----------- *)

\* max_requests and window_seconds of the middleware
RateMax == 2
RateWindow == 2

\* requests made while the limit is observed
MaxRequests == 5

\* everything but the stores of the rate limit and its history
RateFrame ==
  /\ UNCHANGED <<rows, failedStore, pc, skipped, faults, dueAt>>
  /\ UNCHANGED envVars
  /\ UNCHANGED redisVars
  /\ UNCHANGED callVars
  /\ UNCHANGED trailVars
  /\ UNCHANGED histVars
  /\ UNCHANGED loopVars
  /\ UNCHANGED ceilVars
  /\ UNCHANGED storeFlags
  /\ UNCHANGED pushOut
  /\ UNCHANGED pop_error
  /\ UNCHANGED sizeVars
  /\ UNCHANGED serVars
  /\ UNCHANGED timeVars
  /\ UNCHANGED routerVars

\* _sliding_window_redis at the reading t0 of current_time = int(time.time()): the
\* pipeline ZREMRANGEBYSCORE key 0 window_start, ZCARD key, ZADD key
\* {str(current_time): current_time}; the request is allowed when the count
\* read by ZCARD is below max_requests, otherwise ZREM key str(current_time).
\* The member is the reading itself, so the set holds one member a second.
SlidingWindowRedis(t0) ==
  LET kept == {t \in rl_zset : t > t0 - RateWindow}
      current_count == Cardinality(kept)
  IN [allowed |-> current_count < RateMax,
      zset |-> IF current_count >= RateMax
               THEN (kept \cup {t0}) \ {t0}
               ELSE kept \cup {t0}]

\* _sliding_window_memory: the requests newer than window_start are kept;
\* the request is allowed and appended when fewer than max_requests are left
SlidingWindowMemory(t0) ==
  LET kept == SelectSeq(rl_requests, LAMBDA t : t > t0 - RateWindow)
  IN [allowed |-> Len(kept) < RateMax,
      requests |-> IF Len(kept) >= RateMax THEN kept ELSE Append(kept, t0)]

\* RateLimitMiddleware.handle of a request for the one rate-limit key, not
\* whitelisted: _check_rate_limit takes the Redis path when Redis is
\* enabled and the in-memory path otherwise; an allowed request is handed to
\* next_handler, a refused one is answered with rate_limit_exceeded
RateHandle ==
  /\ rl_made < MaxRequests
  /\ rl_made' = rl_made + 1
  /\ IF redis_enabled
     THEN /\ rl_zset' = SlidingWindowRedis(now).zset
          /\ rl_passed' = IF SlidingWindowRedis(now).allowed
                          THEN [rl_passed EXCEPT ![now] = @ + 1] ELSE rl_passed
          /\ UNCHANGED rl_requests
     ELSE /\ rl_requests' = SlidingWindowMemory(now).requests
          /\ rl_passed' = IF SlidingWindowMemory(now).allowed
                          THEN [rl_passed EXCEPT ![now] = @ + 1] ELSE rl_passed
          /\ UNCHANGED rl_zset
  /\ RateFrame

\* the middleware with Redis enabled, or disabled and the fallback in use
InitRate ==
  /\ InitQueue
  /\ max_jobs = [w \in Workers |-> 0]
  /\ max_time = [w \in Workers |-> 0]
  /\ redis_enabled \in BOOLEAN
  /\ mysql_enabled = TRUE
  /\ default_connection = "redis"
  /\ InitManager
  /\ NoSerial
  /\ NoTimeouts
  /\ NoRequests

NextRate == RateHandle \/ ClockTick

SpecRate == InitRate /\ [][NextRate]_vars


(* --------------------------- Router.dispatch -------------------------- *)

\* routes registered while the router is observed
MaxRoutes == 2

\* a segment of a route topic: a literal, or a parameter {name}
Lit(s) == [kind |-> "lit", name |-> s]
Param(s) == [kind |-> "param", name |-> s]

\* the topics routes are registered with: devices/{device_id}/status,
\* devices/d1/status and devices/{id}
RouteTopics ==
  {<<Lit("devices"), Param("device_id"), Lit("status")>>,
   <<Lit("devices"), Lit("d1"), Lit("status")>>,
   <<Lit("devices"), Param("id")>>}

\* the group devices with one middleware, and the topics registered in it:
\* {device_id}/status and d1/status
GroupPrefix == <<Lit("devices")>>
GroupMiddleware == <<"g">>
GroupTopics == {<<Param("device_id"), Lit("status")>>, <<Lit("d1"), Lit("status")>>}

\* the middleware lists given to on()
RouteMiddleware == {<<>>, <<"m1">>, <<"m1", "m2">>}

\* the topics of the messages dispatched, in segments
Topics ==
  {<<"devices", "d1", "status">>, <<"devices", "d2", "status">>, <<"devices", "d1">>,
   <<"sensors", "d1">>}

\* everything but the router and the dispatch under way
RouterFrame ==
  /\ UNCHANGED <<rows, failedStore, pc, skipped, faults, dueAt>>
  /\ UNCHANGED envVars
  /\ UNCHANGED redisVars
  /\ UNCHANGED callVars
  /\ UNCHANGED trailVars
  /\ UNCHANGED histVars
  /\ UNCHANGED loopVars
  /\ UNCHANGED ceilVars
  /\ UNCHANGED storeFlags
  /\ UNCHANGED pushOut
  /\ UNCHANGED pop_error
  /\ UNCHANGED sizeVars
  /\ UNCHANGED serVars
  /\ UNCHANGED timeVars
  /\ UNCHANGED rateVars

\* Route.matches: the pattern is ^...$ with [^/]+ for every {name}, so a
\* topic matches when it has as many segments as the route topic and agrees
\* with it on the literal ones; params is match.groupdict(), the segment under
\* each name; no match is None
RouteMatches(pattern, topic) ==
  IF /\ Len(pattern) = Len(topic)
     /\ \A i \in 1..Len(pattern) : pattern[i].kind = "lit" => pattern[i].name = topic[i]
  THEN [matched |-> TRUE,
        params |-> {<<pattern[i].name, topic[i]>> :
                      i \in {k \in 1..Len(pattern) : pattern[k].kind = "param"}}]
  ELSE [matched |-> FALSE, params |-> {}]

\* a faulty variant of the search: the last registered route that matches
LastMatch(topic) ==
  IF \E k \in 1..Len(routes) : RouteMatches(routes[k].topic, topic).matched
  THEN CHOOSE k \in 1..Len(routes) :
         /\ RouteMatches(routes[k].topic, topic).matched
         /\ \A j \in (k + 1)..Len(routes) : ~RouteMatches(routes[j].topic, topic).matched
  ELSE 0

\* for route in self.routes: params = route.matches(topic); if params is not
\* None: ... return: the index of the first route that matches, 0 when the
\* loop ends without one
FirstMatch(topic) ==
  IF \E k \in 1..Len(routes) : RouteMatches(routes[k].topic, topic).matched
  THEN CHOOSE k \in 1..Len(routes) :
         /\ RouteMatches(routes[k].topic, topic).matched
         /\ \A j \in 1..(k - 1) : ~RouteMatches(routes[j].topic, topic).matched
  ELSE 0

\* the locals of the dispatch that returned are gone
Forgotten ==
  /\ d_topic' = <<>>
  /\ d_route' = 0
  /\ d_calls' = <<>>
  /\ d_outcome' = "none"
  /\ UNCHANGED d_pos

\* Router.on: the route is appended to routes; its handler is named after
\* its place in the list
RouterOn ==
  /\ d_pos = 0
  /\ Len(routes) < MaxRoutes
  /\ \E route_topic \in RouteTopics, middleware \in RouteMiddleware :
       routes' = Append(routes, [topic |-> route_topic, handler |-> Len(routes) + 1,
                                 middleware |-> middleware])
  /\ Forgotten
  /\ RouterFrame

\* RouterGroup.on: the prefix is put before the topic and the middleware of
\* the group before the middleware of the route
GroupOn ==
  /\ d_pos = 0
  /\ Len(routes) < MaxRoutes
  /\ \E route_topic \in GroupTopics, middleware \in RouteMiddleware :
       routes' = Append(routes, [topic |-> GroupPrefix \o route_topic,
                                 handler |-> Len(routes) + 1,
                                 middleware |-> GroupMiddleware \o middleware])
  /\ Forgotten
  /\ RouterFrame

\* Router.dispatch, the search: the first route that matches is taken and
\* the chain built over its middleware; without a match ValueError is raised
Dispatch ==
  /\ d_pos = 0
  /\ \E topic \in Topics :
       /\ d_topic' = topic
       /\ d_route' = FirstMatch(topic)
       /\ d_pos' = IF FirstMatch(topic) = 0 THEN 0 ELSE 1
       /\ d_outcome' = IF FirstMatch(topic) = 0 THEN "ValueError" ELSE "none"
  /\ d_calls' = <<>>
  /\ UNCHANGED routes
  /\ RouterFrame

\* handler = lambda ctx, m=middleware, nh=next_handler: m.handle(ctx, nh),
\* built over reversed(route.middleware): the middleware are entered in list
\* order; each calls next_handler or returns without it
EnterMiddleware ==
  /\ d_route # 0
  /\ d_pos \in 1..Len(routes[d_route].middleware)
  /\ d_calls' = Append(d_calls, [kind |-> "middleware",
                                 name |-> routes[d_route].middleware[d_pos], params |-> {}])
  /\ \E calls_next \in BOOLEAN :
       IF calls_next
       THEN /\ d_pos' = d_pos + 1
            /\ UNCHANGED d_outcome
       ELSE /\ d_pos' = 0
            /\ d_outcome' = "returned"
  /\ UNCHANGED <<routes, d_topic, d_route>>
  /\ RouterFrame

\* execute_handler: route.handler(**ctx['params'], payload=..., client=...)
ExecuteHandler ==
  /\ d_route # 0
  /\ d_pos = Len(routes[d_route].middleware) + 1
  /\ d_calls' = Append(d_calls, [kind |-> "handler", name |-> routes[d_route].handler,
                                 params |-> RouteMatches(routes[d_route].topic, d_topic).params])
  /\ d_pos' = 0
  /\ d_outcome' = "returned"
  /\ UNCHANGED <<routes, d_topic, d_route>>
  /\ RouterFrame

NextRouter == RouterOn \/ GroupOn \/ Dispatch \/ EnterMiddleware \/ ExecuteHandler

SpecRouter == Init /\ [][NextRouter]_vars
(* ------------------------------ properties ---------------------------- *)

\* C1 (Redis driver, Spec): no entry is returned by a pop while it is still
\* reserved from an earlier pop: two workers never hold, at the same time, a
\* job that pop returned to each of them under the same id.
C1_NoDoubleClaim ==
  \A w1 \in Workers : \A w2 \in Workers \ {w1} :
    (job_data[w1] # NoJob /\ job_data[w2] # NoJob)
      => job_data[w1].id # job_data[w2].id

\* C2 (relational driver, SpecDb): the row a pop is about to return is locked
\* by that pop alone and has reserved_at NULL; a row a worker holds has
\* reserved_at set; so no two pops return the same row unless a release
\* cleared it in between.
C2_RowClaimedOnce ==
  /\ \A w1 \in Workers : \A w2 \in Workers \ {w1} :
       LET held(w) == pc[w] = "db_commit" \/ job_data[w] # NoJob
           row(w) == IF pc[w] = "db_commit" THEN job_json[w].id ELSE job_data[w].id
       IN (held(w1) /\ held(w2)) => row(w1) # row(w2)
  /\ \A w \in Workers :
       pc[w] = "db_commit" =>
         \E r \in rows : r.id = job_json[w].id /\ r.reserved_at = Null
  /\ \A w \in Workers :
       job_data[w] # NoJob =>
         \A r \in rows : r.id = job_data[w].id => r.reserved_at # Null

\* C2, its case: two pops raced for the only ready row; one returned it (its
\* first claim) and the other found it locked and returned none.
C2_Witness ==
  \E w1 \in Workers : \E w2 \in Workers \ {w1} :
    /\ pc[w1] = "process"
    /\ claims[job_data[w1].id] = 1
    /\ skipped[w2]
    /\ pc[w2] = "pop"
    /\ job_data[w2] = NoJob

\* C3 (Redis driver, Spec): a delayed entry that became due is appended to
\* the ready list exactly once, so the ready list never holds two elements
\* with the same id.
C3_MigratedOnce ==
  \A i \in 1..Len(ready) : \A j \in 1..Len(ready) :
    i # j => ready[i].id # ready[j].id

\* C4 (worker, SpecDb): when the worker calls driver.delete for an entry whose
\* payload can be reconstructed, either the handler completed for this claim,
\* or attempts >= effective max_tries and _fail_job ran.
C4_DeleteOnlyWhenDone ==
  \A w \in Workers :
    (pc[w] = "del" /\ CanUnserialize(job_data[w].payload)) =>
      \/ handlerOk[w]
      \/ /\ job_data[w].attempts >= EffectiveMaxTries(w, job_data[w].payload)
         /\ failRan[w]

\* C4, its case: the handler never completed for this claim, the entry is
\* exhausted, _fail_job ran and the worker is about to call driver.delete.
C4_Witness ==
  \E w \in Workers :
    /\ pc[w] = "del"
    /\ ctx[w] = "exhausted"
    /\ ~handlerOk[w]
    /\ failRan[w]
    /\ CanUnserialize(job_data[w].payload)

\* C5 (Redis driver, SpecCrash): the entry a dead worker was working on, if
\* nobody deleted it and no other worker is working on an element of the same
\* id, is stored in the ready list, the delayed set or the reserved list.
C5_CrashKeepsEntry ==
  \A w \in Workers :
    LET id == job_json[w].id
    IN (/\ pc[w] = "dead"
        /\ job_json[w] # NoJob
        /\ id \notin removed
        /\ \A o \in Workers \ {w} : job_json[o].id # id /\ job_data[o].id # id)
       => \/ \E i \in 1..Len(ready) : ready[i].id = id
          \/ \E d \in delayed : d.job.id = id
          \/ \E i \in 1..Len(reserved) : reserved[i].id = id

\* C6 (Redis driver, Spec): the n-th pop that returns an entry reports
\* attempts = n.
C6_NthClaimReportsN ==
  \A w \in Workers :
    pc[w] = "process" => job_data[w].attempts = claims[job_data[w].id]

\* C7 (Spec): a failure with attempts left releases the element carrying the
\* attempts the worker was given; after the failure that exhausts the entry,
\* with the hook returned and driver.failed having stored the record, exactly
\* one Failed Job Record of the entry exists and it holds the job's payload
\* and the failure text.
C7_ExhaustionTransition ==
  /\ \A w \in Workers :
       pc[w] = "rel_add" => job_json[w].attempts = job_data[w].attempts
  /\ \A w \in Workers :
       (/\ pc[w] \in {"del", "del_lrem"}
        /\ ctx[w] = "exhausted"
        /\ exc[w] \in {"Handler", "Timeout"}
        /\ hookOk[w]
        /\ stored[w])
       => LET recs == {i \in 1..Len(failedStore) :
                         failedStore[i].entry = job_data[w].id}
          IN /\ Cardinality(recs) = 1
             /\ \A i \in recs :
                  /\ failedStore[i].payload = job_data[w].payload
                  /\ failedStore[i].exception = exc[w]

\* C8 (Spec): when every worker uses the same max_tries override, the handler
\* of an entry is started at most effective max_tries times in total.
C8_BoundedStarts ==
  (\A a \in Workers : \A b \in Workers : wMaxTries[a] = wMaxTries[b]) =>
    \A w \in Workers :
      (job_data[w] # NoJob /\ CanUnserialize(job_data[w].payload)) =>
        starts[job_data[w].id] <= EffectiveMaxTries(w, job_data[w].payload)

\* C9 (Spec): when the worker is removing an exhausted entry from the live
\* queue, a Failed Job Record of that entry has been stored.
C9_RecordBeforeRemoval ==
  \A w \in Workers :
    (pc[w] \in {"del", "del_lrem"} /\ ctx[w] \in {"exhausted", "exceeded"}) =>
      \E i \in 1..Len(failedStore) : failedStore[i].entry = job_data[w].id

\* C10 (Spec): a Failed Job Record is stored only for a claim whose handler
\* did not complete and whose attempts reached effective max_tries, and at
\* most one record is stored per entry.
C10_ExhaustionOnly ==
  /\ \A w \in Workers :
       stored[w] =>
         /\ ~handlerOk[w]
         /\ job_data[w].attempts >= EffectiveMaxTries(w, job_data[w].payload)
  /\ \A i \in 1..Len(failedStore) : \A j \in 1..Len(failedStore) :
       i # j => failedStore[i].entry # failedStore[j].entry

\* C11 (worker, SpecDb): a handler that timed out and a handler that raised
\* lead to the same driver calls: with attempts < effective max_tries the
\* worker releases the entry, otherwise it runs _fail_job and then deletes
\* the entry; the kind of the exception decides nothing.
C11_TimeoutIsFailure ==
  \A w \in Workers :
    exc[w] \in {"Handler", "Timeout"} =>
      LET a == job_data[w].attempts
          n == EffectiveMaxTries(w, job_data[w].payload)
          releasing == {"rel", "rel_lrem", "rel_add"}
          deleting == {"del", "del_lrem"}
      IN /\ pc[w] \in {"retry_check", "fail_hook", "fail_store"}
                       \cup releasing \cup deleting
         /\ pc[w] \in releasing => (a < n /\ ctx[w] = "retry" /\ ~failRan[w])
         /\ pc[w] \in {"fail_hook", "fail_store"} \cup deleting =>
              (a >= n /\ ctx[w] = "exhausted")
         /\ pc[w] \in deleting => failRan[w]

\* C11, its case: an entry that was released after a first failure is
\* claimed again, its handler times out on the last attempt, the record of
\* the timeout is stored and the worker is about to delete the entry.
C11_Witness ==
  /\ \E w \in Workers :
       /\ exc[w] = "Timeout"
       /\ pc[w] = "del"
       /\ stored[w]
       /\ failedStore[Len(failedStore)].exception = "Timeout"
  /\ \E i \in Ids : claims[i] >= 2

\* C12 (worker, Spec): an entry whose payload cannot be reconstructed goes
\* from the claim straight to driver.delete: no handler start, no failure
\* hook, no release, no Failed Job Record, and it is claimed only once.
C12_CorruptDeleted ==
  \A w \in Workers :
    (job_data[w] # NoJob /\ ~CanUnserialize(job_data[w].payload)) =>
      /\ pc[w] \in {"process", "del", "del_lrem"}
      /\ ~handlerOk[w] /\ ~failRan[w] /\ ~stored[w]
      /\ starts[job_data[w].id] = 0
      /\ \A i \in 1..Len(failedStore) : failedStore[i].entry # job_data[w].id
      /\ claims[job_data[w].id] <= 1

\* C13 (Redis driver, SpecFifo): among entries pushed without delay and never
\* released, pop claims the oldest: the element rpoplpush just moved has a
\* smaller id than every such element still in the ready list.
C13_RedisFifo ==
  \A w \in Workers :
    (pc[w] = "pop_lrem" /\ job_json[w].attempts = 0) =>
      \A i \in 1..Len(ready) :
        ready[i].attempts = 0 => job_json[w].id < ready[i].id

\* C14 as stated (relational driver, SpecDbFifo): every pop that selects a
\* row selects the one with the smallest id among the rows that are not
\* reserved and have available_at <= now.
C14_DbFifoStrict ==
  [][\A w \in Workers :
       (pc[w] = "pop" /\ pc'[w] = "db_commit") =>
         \A r \in rows : Eligible(r) => job_json'[w].id <= r.id]_vars

\* C14 amended (relational driver, SpecDbFifo): every pop that selects a row
\* selects the one with the smallest id among the rows that are not
\* reserved, have available_at <= now and are not locked by the pop of
\* another worker that has not committed yet.
C14_DbFifoUnlocked ==
  [][\A w \in Workers :
       (pc[w] = "pop" /\ pc'[w] = "db_commit") =>
         \A r \in rows :
           (Eligible(r) /\ ~LockedByOther(w, r)) => job_json'[w].id <= r.id]_vars

\* C14, its case: two rows are ready and unlocked by others, and a pop has
\* selected the older one.
C14_Witness ==
  \E w \in Workers :
    /\ pc[w] = "db_commit"
    /\ Cardinality({r \in rows : Eligible(r) /\ ~LockedByOther(w, r)}) = 2
    /\ \A r \in rows : job_json[w].id <= r.id



\* the first pop that takes an entry was issued at or after the time the push
\* made the entry due (issue time of a key-value pop: the current_time its
\* migration read; a relational pop reads the clock in its one statement)
FirstTakeIssuedWhenDue(w) ==
  /\ (pc[w] = "pop_move" /\ pc'[w] = "pop_lrem" /\ claims[job_json'[w].id] = 0) =>
       current_time[w] >= dueAt[job_json'[w].id]
  /\ (pc[w] = "pop" /\ pc'[w] = "db_commit" /\ claims[job_json'[w].id] = 0) =>
       now >= dueAt[job_json'[w].id]

\* the first pop that takes an entry takes it at or after the time the push
\* made the entry due
FirstTakeWhenDue(w) ==
  /\ (pc[w] = "pop_move" /\ pc'[w] = "pop_lrem" /\ claims[job_json'[w].id] = 0) =>
       now >= dueAt[job_json'[w].id]
  /\ (pc[w] = "pop" /\ pc'[w] = "db_commit" /\ claims[job_json'[w].id] = 0) =>
       now >= dueAt[job_json'[w].id]

\* a pop returns none only if the ready list is empty and every delayed entry
\* is due after the pop was issued (key-value driver), or every unreserved
\* row that is due is locked by another pop (relational driver)
NoneOnlyWhenNothingDue(w) ==
  /\ (pc[w] = "pop_move" /\ pc'[w] = "pop") =>
       (ready = <<>> /\ \A d \in delayed : d.score > current_time[w])
  /\ (DbPopSelect(w) /\ pc'[w] = "pop") =>
       \A r \in rows : Eligible(r) => LockedByOther(w, r)

ReleaseEffect(w) ==
  /\ RedisReleaseAdd(w) =>
       /\ job_json[w] = job_data[w]
       /\ FindById(reserved', job_data[w].id) = NoJob
       /\ IF RetryDelay(w) > 0
          THEN [job |-> job_data[w], score |-> now + RetryDelay(w)] \in delayed'
          ELSE ready' # <<>> /\ ready'[Len(ready')] = job_data[w]
  /\ DbRelease(w) =>
       \A r \in rows' :
         r.id = job_data[w].id =>
           /\ r.reserved_at = Null
           /\ r.available_at = now + RetryDelay(w)
           /\ r.attempts = job_data[w].attempts
           /\ r.payload = job_data[w].payload

\* a pop that takes an entry released before takes it at or after the time
\* the last release made it due
RetakeWhenDue(w) ==
  /\ (pc[w] = "pop_move" /\ pc'[w] = "pop_lrem" /\ claims[job_json'[w].id] >= 1) =>
       now >= dueAt[job_json'[w].id]
  /\ (pc[w] = "pop" /\ pc'[w] = "db_commit" /\ claims[job_json'[w].id] >= 1) =>
       now >= dueAt[job_json'[w].id]

\* a release of the key-value driver that finds no reserved element of the
\* id leaves the three structures as they are
ReleaseOfUnreserved(w) ==
  (pc[w] = "rel" /\ FindById(reserved, job_data[w].id) = NoJob /\ pc'[w] = "pop") =>
    UNCHANGED redisVars

\* C16 (both drivers, Spec): after release(id, q, delay) of a reserved entry
\* the entry is no longer reserved, its id, payload and attempts are what
\* the preceding pop returned, no pop takes it before now + delay, it is
\* claimable at or after now + delay, and a release of an id that is not
\* reserved changes nothing in the key-value driver.
C16_ReleaseFrame ==
  [][\A w \in Workers :
       /\ ReleaseEffect(w)
       /\ RetakeWhenDue(w)
       /\ NoneOnlyWhenNothingDue(w)
       /\ ReleaseOfUnreserved(w)]_vars

\* the elements of a list whose id is not job_id
OtherIds(list, job_id) == SelectSeq(list, LAMBDA e : e.id # job_id)

\* size counts no entry whose id a delete has removed
SizeIgnoresRemoved ==
  /\ RedisSize = Len(SelectSeq(ready, LAMBDA e : e.id \notin removed))
                   + Cardinality({d \in delayed : d.job.id \notin removed})
  /\ DbSize = Cardinality({r \in rows : r.reserved_at = Null /\ r.id \notin removed})

\* a delete that returned has removed one reserved element or the row of the
\* id and has left the entries of every other id as they were
DeleteEffect(w) ==
  /\ RedisDeleteLrem(w) =>
       /\ Len(reserved') = Len(reserved) - 1
       /\ OtherIds(reserved', job_data[w].id) = OtherIds(reserved, job_data[w].id)
  /\ DbDelete(w) =>
       /\ \A r \in rows' : r.id # job_data[w].id
       /\ \A r \in rows : r.id # job_data[w].id => r \in rows'

\* a delete of an id that is gone raises nothing and changes nothing
DeleteOfGone(w) ==
  /\ (pc[w] = "del" /\ FindById(reserved, job_data[w].id) = NoJob /\ RedisDeleteScan(w)) =>
       (faults' = faults /\ pc'[w] = "pop" /\ UNCHANGED redisVars)
  /\ (pc[w] = "del" /\ (\A r \in rows : r.id # job_data[w].id) /\ DbDelete(w)) =>
       (faults' = faults /\ pc'[w] = "pop" /\ rows' = rows)

\* no pop takes an entry whose id a delete has removed
NoTakeOfRemoved(w) ==
  /\ (pc[w] = "pop_move" /\ pc'[w] = "pop_lrem") => job_json'[w].id \notin removed
  /\ (pc[w] = "pop" /\ pc'[w] = "db_commit") => job_json'[w].id \notin removed

\* C17 (both drivers, Spec): delete(id, q) of a claimed entry removes it for
\* good: no later pop of any worker takes it and size does not count it; a
\* delete of an id that is already gone raises no error and changes no
\* entry, and no delete changes an entry of another id.
C17_DeletePermanent ==
  [][/\ SizeIgnoresRemoved /\ SizeIgnoresRemoved'
     /\ \A w \in Workers :
          DeleteEffect(w) /\ DeleteOfGone(w) /\ NoTakeOfRemoved(w)]_vars

\* the number of places that hold an entry of id i: elements of the ready
\* list, members of the delayed set, elements of the reserved list, rows
Occurrences(i) ==
  Len(SelectSeq(ready, LAMBDA e : e.id = i))
    + Cardinality({d \in delayed : d.job.id = i})
    + Len(SelectSeq(reserved, LAMBDA e : e.id = i))
    + Cardinality({r \in rows : r.id = i})

\* a delete removed id i, or a Failed Job Record of it was stored
DeletedOrDeadLettered(i) ==
  \/ i \in removed
  \/ \E k \in 1..Len(failedStore) : failedStore[k].entry = i

\* C18 (both drivers, Spec): every pushed entry is in exactly one of the
\* states ready (ready list, delayed set, unreserved row), reserved or gone:
\* it is never held by two structures at once, and it is held by none only
\* if it has been deleted or dead-lettered.
C18_ExactlyOneState ==
  \A i \in 1..pushed :
    /\ Occurrences(i) <= 1
    /\ Occurrences(i) = 0 => DeletedOrDeadLettered(i)

\* the positions at which a driver.delete or driver.release call of the
\* worker returns or raises
OutcomeCalls == {"del", "del_lrem", "rel", "rel_lrem", "rel_add"}

\* the entry a stopped worker held when its stop was requested has been
\* deleted, or is unreserved again, or is in the hands of another worker
\* (no driver call having raised)
StopJobSettled(w) ==
  (pc[w] = "stopped" /\ stopJob[w] # 0 /\ faults = 0) =>
    \/ stopJob[w] \in removed
    \/ \E r \in rows :
         /\ r.id = stopJob[w]
         /\ \/ r.reserved_at = Null
            \/ \E o \in Workers \ {w} : InFlightId(o) = r.id \/ LockedBy(o, r)

\* C19 (worker, SpecStop): a stop request (SIGTERM, SIGINT or stop()) does
\* not interrupt the job in flight: it changes the flag and nothing else;
\* the worker leaves its loop only from the top of the loop, holding no
\* entry; and it lets go of an entry only in a driver.delete or
\* driver.release call, so the entry's outcome is reported before the exit.
C19_GracefulStop ==
  [][\A w \in Workers :
       /\ should_quit'[w] # should_quit[w] =>
            (pc' = pc /\ rows' = rows /\ UNCHANGED callVars /\ UNCHANGED trailVars)
       /\ (pc'[w] = "stopped" /\ pc[w] # "stopped") =>
            (pc[w] = "pop" /\ should_quit[w] /\ job_data[w] = NoJob /\ job_json[w] = NoJob)
       /\ (job_data[w] # NoJob /\ job_data'[w] = NoJob) => pc[w] \in OutcomeCalls
       /\ StopJobSettled(w)']_vars

\* C19, its case: the stop request arrived while the worker held an entry;
\* the worker, the only one to claim that entry, has deleted it and has
\* then left its loop.
C19_Witness ==
  \E w \in Workers :
    /\ pc[w] = "stopped"
    /\ stopJob[w] # 0
    /\ stopJob[w] \in removed
    /\ claims[stopJob[w]] = 1

\* C20 (worker, FairStop): once a stop has been requested the worker leaves
\* its loop, given that every await returns; an iteration that begins with
\* the flag set starts no pop; and no step of anyone clears the flag.
C20_StopTerminates ==
  /\ [][\A w \in Workers :
          /\ should_quit[w] => should_quit'[w]
          /\ (pc[w] = "pop" /\ should_quit[w]) => pc'[w] \in {"pop", "stopped"}
          /\ pc[w] = "stopped" => pc'[w] = "stopped"]_vars
  /\ \A w \in Workers : should_quit[w] ~> (pc[w] = "stopped")

\* C20, its case: a worker whose stop was requested in the middle of a job
\* has left its loop, while an unreserved entry that is due still waits in
\* the queue and is not claimed by it.
C20_Witness ==
  \E w \in Workers :
    /\ pc[w] = "stopped"
    /\ should_quit[w]
    /\ stopJob[w] # 0
    /\ \E r \in rows : Eligible(r)

\* C21 (worker, FairDb): no exception raised while a claimed entry is
\* processed (by Job.unserialize, the handler, the failure hook, or a
\* driver call to release, delete or failed) ends the loop of work(): no
\* step takes a worker out of the loop, and every worker is at the top of
\* the loop again and again.
C21_LoopSurvives ==
  /\ [][\A w \in Workers : pc'[w] \notin {"stopped", "dead"}]_vars
  /\ \A w \in Workers : []<>(pc[w] = "pop")

\* C21, its case: a failure while a failure is handled: driver.delete raised
\* after the handler had returned, the except block found the attempts
\* exhausted, the failure hook raised too, and the worker goes on to
\* driver.delete.
C21_Witness ==
  \E w \in Workers :
    /\ pc[w] = "del"
    /\ exc[w] = "Delete"
    /\ failRan[w]
    /\ ~hookOk[w]
    /\ faults = 1

\* a worker with a max_jobs of N is handed at most N entries
AtMostMaxJobs(w) == max_jobs[w] # 0 => taken[w] <= max_jobs[w]

\* an iteration that begins once max_time has elapsed starts no claim
NoClaimAfterMaxTime(w) ==
  (pc[w] = "pop" /\ pc'[w] = "db_commit") =>
    (max_time[w] = 0 \/ now - StartTime < max_time[w])

\* a ceiling ends the worker at the top of the loop only, where it holds no
\* entry
CeilingAtLoopTop(w) ==
  (pc'[w] = "stopped" /\ pc[w] # "stopped") =>
    (pc[w] = "pop" /\ ShouldStop(w) /\ job_data[w] = NoJob /\ job_json[w] = NoJob)

\* C22 (worker, SpecCeil): a worker with a job-count ceiling N >= 1 claims at
\* most N entries in its lifetime; a worker with a wall-clock ceiling starts
\* no claim in an iteration that begins after the ceiling has elapsed; a
\* ceiling never interrupts a job that is executing.
C22_Ceilings ==
  [][\A w \in Workers :
       /\ AtMostMaxJobs(w) /\ AtMostMaxJobs(w)'
       /\ NoClaimAfterMaxTime(w)
       /\ CeilingAtLoopTop(w)]_vars

\* the parts of C22 that do not count claims
C22_TimeCeilingOnly ==
  [][\A w \in Workers : NoClaimAfterMaxTime(w) /\ CeilingAtLoopTop(w)]_vars

\* a worker that is not paused and not stopping, at the top of the loop with
\* a row it can select, can start a pop that takes a row
ClaimableWhenResumed(w) ==
  (pc[w] = "pop" /\ ~paused[w] /\ ~should_quit[w] /\ Selectable(w) # {}) =>
    ENABLED (DbPopSelect(w) /\ pc'[w] = "db_commit")

\* C23 (worker, SpecPause): an iteration of the loop that starts while the
\* worker is paused calls pop zero times and takes no entry; the pause ends
\* no worker; and once the worker is resumed it can claim an entry that
\* waits in the queue.
C23_PauseSuspends ==
  /\ [][\A w \in Workers :
          /\ (pc[w] = "pop" /\ paused[w]) =>
               (pc'[w] = "pop" /\ job_json'[w] = NoJob /\ job_data'[w] = NoJob)
          /\ pc'[w] \notin {"stopped", "dead"}]_vars
  /\ [](\A w \in Workers : ClaimableWhenResumed(w))

\* C23, its case: a worker slept in a pause while an entry it could have
\* claimed was waiting; it has been resumed and now holds that entry, which
\* nobody claimed before.
C23_Witness ==
  \E w \in Workers :
    /\ slept[w]
    /\ ~paused[w]
    /\ job_data[w] # NoJob
    /\ claims[job_data[w].id] = 1

\* C24: one job at a time per worker.  In every reachable state a worker has
\* at most one handler in progress, and while that handler is in progress the
\* worker is waiting for it: it is not in a pop and not starting a handler.
C24_OneJobAtATime ==
  \A w \in Workers :
    /\ running[w] <= 1
    /\ running[w] = 1 => pc[w] = "running"

\* a worker runs the handler of an entry it claimed for the second time, the
\* first handler having ended, while the other worker is between two pops
C24_Witness ==
  \E w \in Workers : \E o \in Workers \ {w} :
    /\ running[w] = 1
    /\ pc[w] = "running"
    /\ starts[job_data[w].id] >= 2
    /\ pc[o] = "pop"

\* what the last QueueManager.push asked for: its argument, or the default
Requested == IF mgr_conn' = "" THEN default_connection ELSE mgr_conn'

\* the push added one entry to the store of the driver d and nothing elsewhere
StoredIn(d) ==
  /\ d = "redis" => Len(ready') = Len(ready) + 1 /\ rows' = rows
  /\ d = "database" => Cardinality(rows') = Cardinality(rows) + 1 /\ ready' = ready

\* C25: driver resolution of the Queue Manager.  For a push whose requested
\* or default connection is the key-value store: the key-value driver is
\* chosen when that store is available; the relational driver when it is not
\* and the relational backend is available; when neither is available the
\* push raises.  A push that returns normally has stored its job with the
\* driver chosen, and a push that raises has stored nothing.
C25_DriverResolution ==
  [][ManagerPush =>
       /\ Requested = "redis" =>
            /\ redis_enabled => mgr_driver' = "redis"
            /\ ~redis_enabled /\ mysql_enabled => mgr_driver' = "database"
            /\ ~redis_enabled /\ ~mysql_enabled =>
                 mgr_driver' = "RuntimeError" /\ mgr_raised'
       /\ ~mgr_raised' => mgr_driver' \in {"redis", "database"} /\ StoredIn(mgr_driver')
       /\ mgr_raised' => ready' = ready /\ rows' = rows]_vars

\* a push on the default connection "redis", the key-value store down, fell
\* back to the relational driver and stored its row there
C25_Witness ==
  /\ mgr_conn = ""
  /\ default_connection = "redis"
  /\ ~redis_enabled
  /\ mgr_driver = "database"
  /\ ~mgr_raised
  /\ Cardinality(rows) = 1
  /\ ready = <<>>


\* the store behind the driver of the push just made was disabled
PushStoreDown ==
  \/ mgr_driver' = "redis" /\ ~redis_enabled
  \/ mgr_driver' = "database" /\ ~mysql_enabled

\* a push on a driver whose store is disabled, or whose command fails, raises
\* and stores nothing
PushReported ==
  \A driver \in {"redis", "database"} :
    DriverPush(driver) /\ (PushStoreDown \/ faults' # faults) =>
      mgr_raised' /\ ready' = ready /\ rows' = rows

\* a pop that met a disabled or failing store raised to its caller
PopReported ==
  \A w \in Workers :
    DbPopDisabled(w) \/ DbPopRaises(w) \/ DbPopRefreshRaises(w) =>
      pop_error'[w] = "raised"

\* C26: an unavailable backend is reported.  When the store behind a selected
\* driver is disabled or unreachable, push raises to its caller and pop
\* raises to its caller; neither returns as if it had succeeded or as if the
\* queue were empty.
C26_UnavailableReported == [][PushReported /\ PopReported]_vars

\* the half of C26 that is about push
C26_PushReported == [][PushReported]_vars

\* every row and every failed-job record is as it was before the step
RowsAsBefore == rows' = rows /\ failedStore' = failedStore

\* a call of the relational driver failed in this step of worker w
DbCallFailed(w) ==
  \/ DbPopRaises(w)
  \/ DbPopRefreshRaises(w)
  \/ pc[w] = "del" /\ DeleteRaises(w)
  \/ pc[w] \in {"rel", "rel_add"} /\ ReleaseRaises(w)
  \/ DbFailedRaises(w)

\* C27: atomicity of the relational driver on error.  A push, pop, release,
\* delete or markFailed that fails leaves every row exactly as before the
\* call; a pop that does not hand the row to its caller leaves it unreserved
\* with its attempts unchanged.
C27_RolledBack ==
  [][/\ \A w \in Workers : DbCallFailed(w) => RowsAsBefore
     /\ DriverPush("database") /\ mgr_raised' => RowsAsBefore]_vars

\* C27 without the failure of session.refresh after the commit of pop
C27_RolledBackBeforeCommit ==
  [][/\ \A w \in Workers : DbCallFailed(w) /\ ~DbPopRefreshRaises(w) => RowsAsBefore
     /\ DriverPush("database") /\ mgr_raised' => RowsAsBefore]_vars

\* the result of the size call that returns in this step counts the entries
\* not reserved, as they were when the call began or as they are at its
\* return, and is 0 only if there was none at one of the two moments
SizeCounts ==
  /\ size_out' \in {size_then', Cardinality(RedisUnreserved)}
  /\ size_out' = 0 => size_then' = 0 \/ RedisUnreserved = {}

\* C28: size(q) is the number of entries of q that are not reserved, ready
\* and delayed; reserved entries are not counted, and the result is never 0
\* while an entry that is not reserved exists.
C28_SizeCounts == [][RedisSizeZcard \/ RedisSizeRaises => SizeCounts]_vars

\* C28 for the calls of size in which no command raises
C28_SizeCountsNoFault == [][RedisSizeZcard => SizeCounts]_vars

\* the restored job has the class and the data of the original, and each of
\* the four properties as the original's, or its default when the envelope
\* lacks it
RoundTrip ==
  /\ ser_restored.cls = ser_job.cls
  /\ GetData(ser_restored) = GetData(ser_job)
  /\ ser_restored.max_tries =
       IF "max_tries" \in ser_payload.lacks THEN 3 ELSE ser_job.max_tries
  /\ ser_restored.timeout =
       IF "timeout" \in ser_payload.lacks THEN 60 ELSE ser_job.timeout
  /\ ser_restored.retry_after =
       IF "retry_after" \in ser_payload.lacks THEN 0 ELSE ser_job.retry_after
  /\ ser_restored.queue =
       IF "queue" \in ser_payload.lacks THEN "default" ELSE ser_job.queue

\* C29: serialization round trip.  For every job, unserialize(serialize(job))
\* is a job of the same class whose data mapping equals the original's field
\* for field and whose max_tries, timeout, retry_after and queue equal the
\* original's; fields the envelope lacks are restored as 3, 60, 0, "default".
C29_RoundTrip == ser_restored # NoInstance => RoundTrip

\* C29 for the jobs none of whose data fields holds a tuple
C29_RoundTripOfJson ==
  /\ ser_restored # NoInstance
  /\ \A k \in DOMAIN GetData(ser_job) : GetData(ser_job)[k].t # "tuple"
  => RoundTrip

\* the id of the entry worker w has received from the ready list and not yet
\* released or deleted, 0 if it has none
HeldBy(w) ==
  IF pc[w] \in {"pop_lrem", "pop_rpush"} THEN job_json[w].id ELSE job_data[w].id

\* C30: key-value driver, ready list only.  With every push and every release
\* at delay 0 the delayed set stays empty, and then concurrent pops each
\* receive a different entry: no two workers hold the same entry at once and
\* no entry is twice in the ready list.
C30_DistinctPops ==
  delayed = {} =>
    /\ \A w \in Workers : \A o \in Workers \ {w} :
         HeldBy(w) # 0 => HeldBy(w) # HeldBy(o)
    /\ \A i \in 1..Len(ready) : \A j \in 1..Len(ready) :
         i # j => ready[i].id # ready[j].id
    /\ \A w \in Workers : \A i \in 1..Len(ready) :
         HeldBy(w) # ready[i].id

\* two pops that overlapped have handed two different entries to the two
\* workers, one of them for the second time after a release at delay 0
C30_Witness ==
  /\ delayed = {}
  /\ \E w \in Workers : \E o \in Workers \ {w} :
       /\ pc[w] = "process"
       /\ pc[o] = "process"
       /\ job_data[w].id # job_data[o].id
       /\ job_data[w].attempts = 2

\* C31: success is final.  Once the handler of a claim has completed within
\* its deadline, the worker neither releases the entry for another attempt
\* nor runs the failure path for it, whatever the delete that follows does.
C31_SuccessFinal ==
  \A w \in Workers :
    handlerOk[w] =>
      /\ pc[w] \notin {"rel", "rel_lrem", "rel_add", "fail_hook", "fail_store"}
      /\ ~failRan[w]
      /\ ~stored[w]

\* C31 when the delete that follows the handler does not raise
C31_SuccessFinalIfDeleted ==
  \A w \in Workers :
    handlerOk[w] /\ exc[w] # "Delete" =>
      /\ pc[w] \notin {"rel", "rel_lrem", "rel_add", "fail_hook", "fail_store"}
      /\ ~failRan[w]
      /\ ~stored[w]

\* the entry with id i is reserved: in the reserved list, or a row with
\* reserved_at set
IsReserved(i) ==
  \/ \E k \in 1..Len(reserved) : reserved[k].id = i
  \/ \E r \in rows : r.id = i /\ r.reserved_at # Null

\* the entry with id i is counted by size: in the ready list or the delayed
\* set, or a row with reserved_at NULL
IsCounted(i) ==
  \/ \E k \in 1..Len(ready) : ready[k].id = i
  \/ \E d \in delayed : d.job.id = i
  \/ \E r \in rows : r.id = i /\ r.reserved_at = Null

\* worker w died holding an entry
DiedHolding(w) == pc[w] = "dead" /\ job_data[w].id # 0

\* C32: no reservation reclaim.  An entry whose claiming worker has stopped
\* forever without calling delete or release stays reserved: it is in the
\* reserved state, size does not count it, no other worker holds it, and no
\* step of another worker is a pop that returns it.
C32_NoReclaim ==
  [][\A w \in Workers :
       DiedHolding(w) =>
         /\ IsReserved(job_data[w].id)
         /\ ~IsCounted(job_data[w].id)
         /\ \A o \in Workers \ {w} :
              /\ HeldBy(o) # job_data[w].id
              /\ job_data'[o].id # job_data[w].id
         /\ DiedHolding(w)']_vars

\* C33: exhausted at claim.  When the attempts of a claimed entry already
\* exceed the effective max_tries, the handler is not run for that claim, and
\* by the time the worker is done with the entry the failure hook has run, a
\* Failed Job Record has been written and the entry has been deleted.
C33_ExhaustedAtClaim ==
  [][\A w \in Workers :
       ctx[w] = "exceeded" =>
         /\ pc'[w] # "handle"
         /\ ~handlerOk'[w]
         /\ pc'[w] = "pop" =>
              failRan[w] /\ stored[w] /\ job_data[w].id \in removed']_vars

\* C33 with the record owed only when the failure hook returned and the
\* write of the record did not raise
C33_ExhaustedUnlessHookRaises ==
  [][\A w \in Workers :
       ctx[w] = "exceeded" =>
         /\ pc'[w] # "handle"
         /\ ~handlerOk'[w]
         /\ pc'[w] = "pop" =>
              /\ failRan[w]
              /\ job_data[w].id \in removed'
              /\ stored[w] \/ ~hookOk[w] \/ faults > 0]_vars

\* the deadline the specification gives: the timeout of the worker when the
\* worker was built with one, the job's own timeout otherwise
OverrideTimeout(w, payload) ==
  IF wTimeout[w] # DefaultWorkerTimeout THEN wTimeout[w] ELSE Unserialize(payload).timeout

\* C34: a handler is cut off by the timeout exactly when it runs longer than
\* the effective timeout, which is the worker-level timeout override when the
\* worker is configured with one and the job's own timeout otherwise.
C34_EffectiveTimeout ==
  [][\A w \in Workers :
       HandleTimed(w) =>
         ((exc'[w] = "Timeout") <=> (ran'[w] > OverrideTimeout(w, job_data[w].payload)))]_vars

\* the pop of worker w returns None in this step: the store is disabled, a
\* statement raised, or no entry was found
PopReturnsNone(w) ==
  \/ DbPopDisabled(w)
  \/ DbPopRaises(w)
  \/ DbPopRefreshRaises(w)
  \/ pc[w] = "pop" /\ DbPopSelect(w) /\ pc'[w] = "pop"
  \/ pc[w] = "pop_move" /\ RedisPopMove(w) /\ pc'[w] = "pop"

\* no entry is moved to reserved, removed or given other attempts in the step
EntriesAsBefore == rows' = rows /\ ready' = ready /\ reserved' = reserved

\* C35: a pop that returns none has no effect on entries.  On either driver,
\* the step in which a pop returns None moves no entry to reserved, removes
\* none and changes no attempts.
C35_NonePopNoEffect == [][\A w \in Workers : PopReturnsNone(w) => EntriesAsBefore]_vars

\* C35 without the failure of session.refresh after the commit of pop
C35_NonePopNoEffectBeforeCommit ==
  [][\A w \in Workers : PopReturnsNone(w) /\ ~DbPopRefreshRaises(w) => EntriesAsBefore]_vars

\* C36: id uniqueness of the key-value driver.  Any two pushes to the queue,
\* those made at the same clock reading included, give entries with
\* different ids, and every push is stored as an entry of its own: two
\* delayed pushes of the same payload are two members of the delayed set.
C36_UniqueIds ==
  /\ \A i, j \in 1..Len(ready) : i # j => ready[i].id # ready[j].id
  /\ \A d, e \in delayed : d # e => d.job.id # e.job.id
  /\ \A i \in 1..Len(ready) : \A d \in delayed : ready[i].id # d.job.id
  /\ Len(ready) + Cardinality(delayed) = pushed

\* C36, for pushes made at different clock readings only: the ids of two
\* entries are equal only if both were pushed at the same reading, and the
\* ids seen so far are those of the readings so far
C36_UniqueAcrossReadings ==
  /\ \A i \in 1..Len(ready) : \E t \in 0..now : ready[i].id = ClockId(t)
  /\ \A d \in delayed : \E t \in 0..now : d.job.id = ClockId(t) /\ d.score = t + 1

\* a Failed Job Record of entry i is stored
HasRecord(i) == \E k \in 1..Len(failedStore) : failedStore[k].entry = i

\* the delete of this step removes an entry in a terminal state: its handler
\* has returned, or its attempts are exhausted and its Failed Job Record is
\* stored; an entry that cannot be reconstructed has no handler to run
RemovedTerminal(w) ==
  (job_data[w] # NoJob /\ job_data[w].id \in removed' \ removed) =>
    \/ ctx[w] \in {"success", "corrupt"}
    \/ ctx[w] \in {"exhausted", "exceeded"} /\ HasRecord(job_data[w].id)

\* entry i is deleted, or is due after the last reading of the clock
Settled(i) == i \in removed \/ dueAt[i] > MaxTime

\* C37: eventual completion.  With workers that keep running, an available
\* backend and handlers that return, raise or time out, every pushed entry
\* is eventually deleted, and it is deleted after a successful run or with a
\* Failed Job Record after its attempts are exhausted.
C37_EventualCompletion ==
  /\ [][\A w \in Workers : RemovedTerminal(w)]_vars
  /\ \A i \in Ids : (pushed >= i) ~> Settled(i)

\* C37, the half that is about the deletion: every pushed entry is
\* eventually deleted
C37_EventuallyDeleted == \A i \in Ids : (pushed >= i) ~> Settled(i)

\* C38: backend transparency.  In a history of push, pop, release and delete
\* by one caller with all delays 0, the pop of the key-value driver and the
\* pop of the relational driver return the same payload and the same
\* attempts, and the two sizes are equal.
C38_SameResults ==
  /\ job_data["w1"].payload = job_data["w2"].payload
  /\ job_data["w1"].attempts = job_data["w2"].attempts
  /\ RedisSize = DbSize

\* C38, the half that is about size: the two sizes are equal, and one pop
\* returns None exactly when the other does
C38_SameSizes ==
  /\ RedisSize = DbSize
  /\ (job_data["w1"] = NoJob) = (job_data["w2"] = NoJob)

\* the requests handed to next_handler at the readings from a up to, but not
\* including, a + RateWindow
RECURSIVE PassedFrom(_, _)
PassedFrom(a, n) ==
  IF n = 0 \/ a > MaxTime THEN 0 ELSE rl_passed[a] + PassedFrom(a + 1, n - 1)

\* C39: rate limit, sliding window.  In every interval of window_seconds the
\* requests handed to the next handler for a key are at most max_requests,
\* on the Redis path and on the in-memory path, requests that arrive in the
\* same clock second included.
C39_SlidingWindowLimit ==
  \A a \in 0..MaxTime : PassedFrom(a, RateWindow) <= RateMax

\* C39 on the in-memory path alone
C39_MemoryLimit ==
  ~redis_enabled => \A a \in 0..MaxTime : PassedFrom(a, RateWindow) <= RateMax

\* route k is the first registered route whose pattern matches the topic
\* dispatched
FirstMatching(k) ==
  /\ k \in 1..Len(routes)
  /\ RouteMatches(routes[k].topic, d_topic).matched
  /\ \A j \in 1..(k - 1) : ~RouteMatches(routes[j].topic, d_topic).matched

\* what a dispatch to route k does when every middleware passes the message
\* on: the middleware of the route in list order, then its handler with the
\* parameters taken from the topic
ExpectedCalls(k) ==
  [i \in 1..(Len(routes[k].middleware) + 1) |->
     IF i <= Len(routes[k].middleware)
     THEN [kind |-> "middleware", name |-> routes[k].middleware[i], params |-> {}]
     ELSE [kind |-> "handler", name |-> routes[k].handler,
           params |-> RouteMatches(routes[k].topic, d_topic).params]]

\* the handlers invoked by the dispatch
HandlerCalls == {i \in 1..Len(d_calls) : d_calls[i].kind = "handler"}

\* C40: Router.dispatch(topic, payload, client).  The middleware of the first
\* registered route that matches are entered in list order, those of the
\* group before those of the route, each able to return without calling the
\* next; the handler of that route is invoked after them, once, with the
\* parameters extracted, and is the last call of a dispatch that returned
\* with every middleware passed; the handler of no other route is invoked;
\* without a matching route ValueError is raised and nothing is called.
C40_Dispatch ==
  /\ \A k \in 1..Len(routes) :
       (d_topic # <<>> /\ FirstMatching(k)) =>
         /\ d_outcome # "ValueError"
         /\ Len(d_calls) <= Len(ExpectedCalls(k))
         /\ \A i \in 1..Len(d_calls) : d_calls[i] = ExpectedCalls(k)[i]
         /\ (d_pos = 0 /\ Len(d_calls) = Len(routes[k].middleware) + 1) =>
              (d_outcome = "returned" /\ Cardinality(HandlerCalls) = 1)
         /\ d_pos = 0 => d_outcome = "returned"
         /\ d_pos # 0 => (d_pos = Len(d_calls) + 1 /\ d_outcome = "none")
  /\ (d_topic # <<>> /\ ~\E k \in 1..Len(routes) : FirstMatching(k)) =>
       (d_outcome = "ValueError" /\ d_calls = <<>> /\ d_pos = 0)
  /\ \A i, j \in 1..Len(d_calls) :
       (i < j /\ d_calls[j].kind = "middleware" /\ d_calls[j].name = GroupMiddleware[1]) =>
         (d_calls[i].kind = "middleware" /\ d_calls[i].name = GroupMiddleware[1])

\* C40, its case: two routes match the topic devices/d1/status; the first,
\* registered in the group, has the middleware of the group and one of its
\* own; both were entered in that order and passed the message on, and the
\* handler of the first route was invoked with device_id = d1, the handler of
\* the second not at all.
C40_Witness ==
  /\ Len(routes) = 2
  /\ d_topic = <<"devices", "d1", "status">>
  /\ RouteMatches(routes[1].topic, d_topic).matched
  /\ RouteMatches(routes[2].topic, d_topic).matched
  /\ routes[1].middleware = <<"g", "m1">>
  /\ d_pos = 0
  /\ d_outcome = "returned"
  /\ d_calls = <<[kind |-> "middleware", name |-> "g", params |-> {}],
                 [kind |-> "middleware", name |-> "m1", params |-> {}],
                 [kind |-> "handler", name |-> 1, params |-> {<<"device_id", "d1">>}]>>
====
